---- MODULE Spec2Model ----
(***************************************************************************)
(* esport-signal: the three-worker pipeline                                *)
(*   market scanner -> ActiveMarkets <- live fetcher -> update channel     *)
(*                                    -> signal processor -> signal store  *)
(* Team names are sequences of one-character strings so that to_lowercase  *)
(* and trim are computed.  Probabilities and odds are exact fixed-point    *)
(* integers.                                                               *)
(***************************************************************************)
EXTENDS Integers, Sequences, FiniteSets, TLC

VARIABLES
    active_markets,   \* Arc<RwLock<ActiveMarkets>>: condition_id -> market
    match_cache,      \* Arc<RwLock<LiveMatchCache>>: match_id -> state
    update_chan,      \* mpsc channel of MatchUpdate, fetcher -> processor
    signals,          \* rows of the signals table, in insertion order
    am_readers,       \* workers holding a read guard of ActiveMarkets
    am_writer,        \* TRUE while the scanner holds the write guard
    am_waiters,       \* FIFO queue of workers waiting for the ActiveMarkets lock
    cache_locked,     \* TRUE while the fetcher holds the cache write guard
    pc,               \* position of each worker in its code
    s_markets,        \* scanner: markets of the running scan still to insert
    s_returned,       \* Vec returned by the last Ok of fetch_dota2_markets
    s_before,         \* ActiveMarkets as the running (or last) scan found it
    s_failed,         \* TRUE when the last scan found the provider unavailable
    scans,            \* number of scans started
    f_live,           \* fetcher: live matches returned by the provider
    f_todo,           \* fetcher: markets of markets.values() not yet visited
    f_update,         \* fetcher: the update being sent (Option)
    p_update,         \* processor: the update being processed (Option)
    p_signal,         \* processor: the signal being inserted (Option)
    clock,            \* Utc::now(), advanced at each provider poll
    sent_pairs,       \* history: the (market, match) pairs of the updates sent so far
    aliases,          \* TeamResolver.aliases: alias -> canonical name
    raw_match,        \* live adapter: the provider's record being converted (Option)
    main_result,      \* supervisor: None while select! is pending, then the arm taken and the exit code
    series,           \* market adapter: the SeriesResponse of the provider (Option)
    event_replies,    \* market adapter: the provider's answer to GET /events/{id}, per event id
    event_requests    \* market adapter: the event ids requested in the current pass, in order

vars == <<active_markets, match_cache, update_chan, signals, am_readers,
          am_writer, am_waiters, cache_locked, pc, s_markets, s_returned,
          s_before, s_failed, scans, f_live, f_todo, f_update, p_update, p_signal,
          clock, sent_pairs, aliases, raw_match, main_result, series,
          event_replies, event_requests>>

-----------------------------------------------------------------------------
(* Bounds of the model *)

\* scans the scanner runs
MaxScans == 2

\* polls of the live provider the fetcher makes
MaxTicks == 2

\* capacity of the update channel (mpsc::channel(100) in main), scaled down
ChanCap == 2

-----------------------------------------------------------------------------
(* Option<T> as a sequence of length 0 or 1 *)

None == <<>>

Some(x) == <<x>>

Put(m, k, v) == [x \in DOMAIN m \cup {k} |-> IF x = k THEN v ELSE m[x]]

EmptyMap == [x \in {} |-> 0]

-----------------------------------------------------------------------------
(* Team resolver *)

Lower(c) ==
    CASE c = "S" -> "s" [] c = "P" -> "p" [] c = "O" -> "o" [] c = "G" -> "g"
      [] c = "T" -> "t" [] c = "D" -> "d" [] OTHER -> c

to_lowercase(s) == [i \in 1..Len(s) |-> Lower(s[i])]

RECURSIVE trim_start(_)
trim_start(s) ==
    IF s # <<>> /\ Head(s) = " " THEN trim_start(Tail(s)) ELSE s

RECURSIVE trim_end(_)
trim_end(s) ==
    IF s # <<>> /\ s[Len(s)] = " " THEN trim_end(SubSeq(s, 1, Len(s) - 1)) ELSE s

trim(s) == trim_end(trim_start(s))

RECURSIVE insert_aliases(_, _, _)
insert_aliases(m, als, canonical) ==
    IF als = <<>> THEN m
    ELSE insert_aliases(Put(m, to_lowercase(Head(als)), canonical), Tail(als), canonical)

RECURSIVE load_from_file(_, _)
load_from_file(teams, m) ==
    IF teams = <<>> THEN m
    ELSE LET canonical == to_lowercase(Head(teams).canonical)
         IN load_from_file(Tail(teams),
                insert_aliases(Put(m, canonical, canonical), Head(teams).aliases, canonical))

\* add_alias: aliases.insert(alias.to_lowercase(), canonical.to_lowercase())
add_alias(table, alias, canonical) ==
    Put(table, to_lowercase(alias), to_lowercase(canonical))

TeamAliasesFile ==
    << [canonical |-> <<"S","p">>, aliases |-> << <<"T","S">> >>] >>

\* the table main loads at start-up
load_team_resolver == load_from_file(TeamAliasesFile, EmptyMap)

normalize(name) ==
    LET lower == trim(to_lowercase(name))
    IN IF lower \in DOMAIN aliases THEN aliases[lower] ELSE lower

names_match(name_a, name_b) == normalize(name_a) = normalize(name_b)

NoMatch == [found |-> FALSE]

RECURSIVE match_from(_, _, _)
match_from(market, live_matches, i) ==
    IF i > Len(live_matches) THEN NoMatch
    ELSE LET live_match == live_matches[i]
             market_team_a == normalize(market.team_a)
             market_team_b == normalize(market.team_b)
             radiant_name == normalize(live_match.radiant.name)
             dire_name == normalize(live_match.dire.name)
             team_a_is_radiant == market_team_a = radiant_name /\ market_team_b = dire_name
             team_a_is_dire == market_team_a = dire_name /\ market_team_b = radiant_name
         IN IF team_a_is_radiant \/ team_a_is_dire
            THEN [found |-> TRUE, match_state |-> live_match,
                  market_team_a_is_radiant |-> team_a_is_radiant]
            ELSE match_from(market, live_matches, i + 1)

\* variant: one team of the market on its side of the live match is enough
RECURSIVE match_either_from(_, _, _)
match_either_from(market, live_matches, i) ==
    IF i > Len(live_matches) THEN NoMatch
    ELSE LET live_match == live_matches[i]
             market_team_a == normalize(market.team_a)
             market_team_b == normalize(market.team_b)
             radiant_name == normalize(live_match.radiant.name)
             dire_name == normalize(live_match.dire.name)
             team_a_is_radiant == market_team_a = radiant_name \/ market_team_b = dire_name
             team_a_is_dire == market_team_a = dire_name \/ market_team_b = radiant_name
         IN IF team_a_is_radiant \/ team_a_is_dire
            THEN [found |-> TRUE, match_state |-> live_match,
                  market_team_a_is_radiant |-> team_a_is_radiant]
            ELSE match_either_from(market, live_matches, i + 1)

match_either_team(market, live_matches) == match_either_from(market, live_matches, 1)

\* variant: only the orientation team A = radiant is tried
RECURSIVE match_radiant_from(_, _, _)
match_radiant_from(market, live_matches, i) ==
    IF i > Len(live_matches) THEN NoMatch
    ELSE LET live_match == live_matches[i]
             team_a_is_radiant ==
                 /\ normalize(market.team_a) = normalize(live_match.radiant.name)
                 /\ normalize(market.team_b) = normalize(live_match.dire.name)
         IN IF team_a_is_radiant
            THEN [found |-> TRUE, match_state |-> live_match,
                  market_team_a_is_radiant |-> team_a_is_radiant]
            ELSE match_radiant_from(market, live_matches, i + 1)

match_radiant_only(market, live_matches) == match_radiant_from(market, live_matches, 1)

\* variant: the list is searched from its end
RECURSIVE match_from_end(_, _, _)
match_from_end(market, live_matches, i) ==
    IF i < 1 THEN NoMatch
    ELSE LET live_match == live_matches[i]
             market_team_a == normalize(market.team_a)
             market_team_b == normalize(market.team_b)
             radiant_name == normalize(live_match.radiant.name)
             dire_name == normalize(live_match.dire.name)
             team_a_is_radiant == market_team_a = radiant_name /\ market_team_b = dire_name
             team_a_is_dire == market_team_a = dire_name /\ market_team_b = radiant_name
         IN IF team_a_is_radiant \/ team_a_is_dire
            THEN [found |-> TRUE, match_state |-> live_match,
                  market_team_a_is_radiant |-> team_a_is_radiant]
            ELSE match_from_end(market, live_matches, i - 1)

match_last(market, live_matches) == match_from_end(market, live_matches, Len(live_matches))

match_market_to_live(market, live_matches) == match_from(market, live_matches, 1)

-----------------------------------------------------------------------------
(* Signal processor: classification and scoring.  A probability p is held  *)
(* as the integer p * Scale, a confidence c as c * ConfScale.               *)

Scale == 100000 * 4800

ConfScale == 100 * 2400

Min(a, b) == IF a < b THEN a ELSE b

Max(a, b) == IF a > b THEN a ELSE b

Abs(a) == IF a < 0 THEN -a ELSE a

Clamp(x, lo, hi) == Max(lo, Min(x, hi))

\* variant: the tower rule is tried before the barracks rule
detect_tower_first(current, previous_state) ==
    IF previous_state = None THEN "game_start"
    ELSE LET previous == previous_state[1]
             rax_diff == (current.radiant.barracks_killed - previous.radiant.barracks_killed)
                       + (current.dire.barracks_killed - previous.dire.barracks_killed)
             tower_diff == (current.radiant.towers_killed - previous.radiant.towers_killed)
                         + (current.dire.towers_killed - previous.dire.towers_killed)
         IN IF tower_diff > 0 THEN "tower_kill"
            ELSE IF rax_diff > 0 THEN "barracks_kill"
            ELSE "periodic_update"

\* variant: the first kill of a game is given a type of its own
detect_with_first_blood(current, previous_state) ==
    IF previous_state = None THEN "game_start"
    ELSE LET previous == previous_state[1]
         IN IF previous.radiant.kills + previous.dire.kills = 0
               /\ current.radiant.kills + current.dire.kills > 0
            THEN "first_blood"
            ELSE "periodic_update"

detect_signal_type(current, previous_state) ==
    IF previous_state = None THEN "game_start"
    ELSE LET previous == previous_state[1]
             rax_diff == (current.radiant.barracks_killed - previous.radiant.barracks_killed)
                       + (current.dire.barracks_killed - previous.dire.barracks_killed)
             tower_diff == (current.radiant.towers_killed - previous.radiant.towers_killed)
                         + (current.dire.towers_killed - previous.dire.towers_killed)
             kill_diff == (current.radiant.kills - previous.radiant.kills)
                        + (current.dire.kills - previous.dire.kills)
             current_nw_diff == current.radiant.net_worth - current.dire.net_worth
             previous_nw_diff == previous.radiant.net_worth - previous.dire.net_worth
             nw_swing == Abs(current_nw_diff - previous_nw_diff)
         IN CASE rax_diff > 0 -> "barracks_kill"
              [] rax_diff <= 0 /\ tower_diff > 0 -> "tower_kill"
              [] rax_diff <= 0 /\ tower_diff <= 0 /\ kill_diff >= 5 -> "kill_spree"
              [] rax_diff <= 0 /\ tower_diff <= 0 /\ kill_diff < 5 /\ nw_swing >= 5000 -> "gold_swing"
              [] rax_diff <= 0 /\ tower_diff <= 0 /\ kill_diff < 5 /\ nw_swing < 5000
                 /\ current.game_time > 2100 /\ previous.game_time <= 2100 -> "late_game"
              [] OTHER -> "periodic_update"

\* variant: the score is returned without the final clamp
calculate_win_probability_unclamped(state) ==
    LET kill_diff == state.radiant.kills - state.dire.kills
        gold_diff == state.radiant.net_worth - state.dire.net_worth
        tower_diff == state.radiant.towers_killed - state.dire.towers_killed
        rax_diff == state.radiant.barracks_killed - state.dire.barracks_killed
        deviation_from_50 == kill_diff * 500 + gold_diff + tower_diff * 3000 + rax_diff * 8000
        amplification == 4800 + Min(state.game_time, 2400)
    IN Scale \div 2 + deviation_from_50 * amplification

calculate_win_probability(state) ==
    LET kill_diff == state.radiant.kills - state.dire.kills
        gold_diff == state.radiant.net_worth - state.dire.net_worth
        tower_diff == state.radiant.towers_killed - state.dire.towers_killed
        rax_diff == state.radiant.barracks_killed - state.dire.barracks_killed
        \* deviation from 0.5 in units of 1/100000
        deviation_from_50 == kill_diff * 500 + gold_diff + tower_diff * 3000 + rax_diff * 8000
        \* (1 + game_progress * 0.5) in units of 1/4800
        amplification == 4800 + Min(state.game_time, 2400)
    IN Clamp(Scale \div 2 + deviation_from_50 * amplification,
             5 * (Scale \div 100), 95 * (Scale \div 100))

calculate_confidence(state) ==
    LET kill_diff == Abs(state.radiant.kills - state.dire.kills)
        gold_diff == Abs(state.radiant.net_worth - state.dire.net_worth)
        base == ConfScale \div 2 + 30 * Min(state.game_time, 2400)
        bonus == IF kill_diff >= 10 \/ gold_diff >= 10000 THEN 15 * (ConfScale \div 100) ELSE 0
    IN Clamp(base + bonus, 30 * (ConfScale \div 100), 95 * (ConfScale \div 100))

\* variant: the boundaries belong to the class below them
from_edge_inclusive(edge) ==
    LET abs_edge == Abs(edge)
    IN IF abs_edge <= 3 * (Scale \div 100) THEN "weak"
       ELSE IF abs_edge <= 7 * (Scale \div 100) THEN "moderate"
       ELSE IF abs_edge <= 12 * (Scale \div 100) THEN "strong"
       ELSE "very_strong"

\* variant: the sign of the edge is kept
from_edge_signed(edge) ==
    IF edge < 3 * (Scale \div 100) THEN "weak"
    ELSE IF edge < 7 * (Scale \div 100) THEN "moderate"
    ELSE IF edge < 12 * (Scale \div 100) THEN "strong"
    ELSE "very_strong"

from_edge(edge) ==
    LET abs_edge == Abs(edge)
    IN IF abs_edge < 3 * (Scale \div 100) THEN "weak"
       ELSE IF abs_edge < 7 * (Scale \div 100) THEN "moderate"
       ELSE IF abs_edge < 12 * (Scale \div 100) THEN "strong"
       ELSE "very_strong"

\* the Signal that process_update builds for an update and the market found
\* (reason and created_at, which no decision reads, are left out)
build_signal(update, market) ==
    LET team_a_win_prob == calculate_win_probability(update.state)
        market_team_a_odds == market.team_a_odds
        edge == team_a_win_prob - market_team_a_odds
    IN [id |-> None,
        market_condition_id |-> update.market_condition_id,
        match_id |-> update.state.match_id,
        signal_type |-> detect_signal_type(update.state, update.previous_state),
        team_a_win_prob |-> team_a_win_prob,
        market_team_a_odds |-> market_team_a_odds,
        edge |-> edge,
        confidence |-> calculate_confidence(update.state),
        strength |-> from_edge(edge),
        match_snapshot |-> update.state]

-----------------------------------------------------------------------------
(* The data the two providers can return *)

Odds(pct) == pct * (Scale \div 100)

Market(cid, a, b, pct) ==
    [condition_id |-> cid, team_a |-> a, team_b |-> b,
     team_a_odds |-> Odds(pct), team_b_odds |-> Odds(100 - pct)]

MX == Market("X", <<"S","p">>, <<"O","G">>, 40)

MX2 == Market("X", <<"S","p">>, <<"O","G">>, 60)

MY == Market("Y", <<"O","G">>, <<"T","S">>, 55)

MZ == Market("Z", <<"S","p">>, <<"G">>, 50)

ScanLists == { <<MX, MY>>, <<MX2, MZ>> }

\* replies of the series request: no reply, a non-2xx status, a body that
\* does not decode, or a series whose events hold the markets of a list
SeriesReplies ==
    { [kind |-> "transport_error", markets |-> <<>>],
      [kind |-> "status_error", markets |-> <<>>],
      [kind |-> "decode_error", markets |-> <<>>] }
    \cup { [kind |-> "ok", markets |-> l] : l \in ScanLists }

Team(n, k, t, b, nw) ==
    [name |-> n, kills |-> k, towers_killed |-> t, barracks_killed |-> b, net_worth |-> nw]

Live(id, r, d, lead, time) ==
    [match_id |-> id, radiant |-> r, dire |-> d, gold_lead |-> lead,
     game_time |-> time, updated_at |-> 0]

G7a == Live(7, Team(<<"T","S">>, 0, 0, 0, 0), Team(<<"o","g">>, 0, 0, 0, 0), 0, 0)

G7b == Live(7, Team(<<"T","S">>, 6, 1, 0, 16000), Team(<<"o","g">>, 1, 0, 0, 10000), 6000, 1800)

G9 == Live(9, Team(<<"S","p">>, 2, 0, 0, 0), Team(<<"D">>, 0, 0, 0, 0), 0, 300)

LiveReplies ==
    { [ok |-> FALSE, matches |-> <<>>],
      [ok |-> TRUE, matches |-> <<>>],
      [ok |-> TRUE, matches |-> <<G9, G7a>>],
      [ok |-> TRUE, matches |-> <<G9, G7b>>] }

-----------------------------------------------------------------------------
(* The ActiveMarkets lock: tokio::sync::RwLock, granted in FIFO order.  The *)
(* scanner is the only writer; the fetcher and the processor read.          *)

Workers == {"scanner", "fetcher", "processor"}

\* variant: the writer does not wait for the readers to leave
CanGrantOverReaders(w) == ~am_writer

CanGrant(w) ==
    IF w = "scanner" THEN am_readers = {} /\ ~am_writer ELSE ~am_writer

\* pc of a worker once its queued request is granted
AfterWait(p) ==
    CASE p = "write_wait" -> "clear"
      [] p = "read1_wait" -> "check"
      [] p = "read2_wait" -> "cache"
      [] p = "read_wait" -> "lookup"

\* worker w reaches .read().await / .write().await
Acquire(w, wait_pc) ==
    IF am_waiters = <<>> /\ CanGrant(w)
    THEN /\ am_readers' = IF w = "scanner" THEN am_readers ELSE am_readers \cup {w}
         /\ am_writer' = (w = "scanner")
         /\ am_waiters' = am_waiters
         /\ pc' = [pc EXCEPT ![w] = AfterWait(wait_pc)]
    ELSE /\ am_waiters' = Append(am_waiters, w)
         /\ pc' = [pc EXCEPT ![w] = wait_pc]
         /\ UNCHANGED <<am_readers, am_writer>>

\* the request at the head of the queue is granted
Granted ==
    /\ am_waiters # <<>>
    /\ CanGrant(Head(am_waiters))
    /\ LET w == Head(am_waiters)
       IN /\ am_readers' = IF w = "scanner" THEN am_readers ELSE am_readers \cup {w}
          /\ am_writer' = (w = "scanner")
          /\ pc' = [pc EXCEPT ![w] = AfterWait(pc[w])]
    /\ am_waiters' = Tail(am_waiters)
    /\ UNCHANGED <<active_markets, match_cache, update_chan, signals, cache_locked,
                   s_markets, s_returned, s_before, s_failed, scans, f_live, f_todo,
                   f_update, p_update, p_signal, clock, sent_pairs,
                   aliases, raw_match,
                   main_result, series, event_replies,
                   event_requests>>

-----------------------------------------------------------------------------
(* Market scanner worker *)

\* Result<Vec<PolymarketMarket>> of the market adapter for a series reply
fetch_dota2_markets(reply) ==
    CASE reply.kind = "transport_error" -> [ok |-> FALSE, markets |-> <<>>]
      [] reply.kind = "status_error" -> [ok |-> TRUE, markets |-> <<>>]
      [] reply.kind = "decode_error" -> [ok |-> FALSE, markets |-> <<>>]
      [] reply.kind = "ok" -> [ok |-> TRUE, markets |-> reply.markets]

\* the provider was unavailable: no reply, a non-2xx status or a bad body
unavailable(reply) == reply.kind # "ok"

\* a timer tick (or the start of run): scan() calls fetch_dota2_markets; on
\* Ok the scanner asks for the write guard, on Err the scan is over
ScanFetch ==
    /\ pc["scanner"] = "tick"
    /\ scans < MaxScans
    /\ scans' = scans + 1
    /\ s_before' = active_markets
    /\ \E reply \in SeriesReplies :
         LET r == fetch_dota2_markets(reply)
         IN /\ s_failed' = unavailable(reply)
            /\ IF r.ok
               THEN /\ s_markets' = r.markets
                    /\ s_returned' = Some(r.markets)
                    /\ Acquire("scanner", "write_wait")
               ELSE /\ pc' = pc
                    /\ UNCHANGED <<s_markets, s_returned, am_readers, am_writer, am_waiters>>
    /\ UNCHANGED <<active_markets, match_cache, update_chan, signals, cache_locked,
                   f_live, f_todo, f_update, p_update, p_signal, clock, sent_pairs,
                   aliases, raw_match,
                   main_result, series, event_replies,
                   event_requests>>

\* variant: the map is not cleared before the refill
ScanNoClear ==
    /\ pc["scanner"] = "clear"
    /\ pc' = [pc EXCEPT !["scanner"] = "insert"]
    /\ UNCHANGED <<active_markets, match_cache, update_chan, signals, am_readers,
                   am_writer, am_waiters, cache_locked, s_markets, s_returned, s_before,
                   s_failed, scans, f_live, f_todo, f_update, p_update, p_signal, clock,
                   sent_pairs, aliases, raw_match,
                   main_result, series, event_replies,
                   event_requests>>

\* active.clear()
ScanClear ==
    /\ pc["scanner"] = "clear"
    /\ active_markets' = EmptyMap
    /\ pc' = [pc EXCEPT !["scanner"] = "insert"]
    /\ UNCHANGED <<match_cache, update_chan, signals, am_readers, am_writer, am_waiters,
                   cache_locked, s_markets, s_returned, s_before, s_failed, scans, f_live,
                   f_todo, f_update, p_update, p_signal, clock, sent_pairs,
                   aliases, raw_match,
                   main_result, series, event_replies,
                   event_requests>>

\* one pass of the loop: active.insert(market.condition_id.clone(), market)
ScanInsert ==
    /\ pc["scanner"] = "insert"
    /\ s_markets # <<>>
    /\ active_markets' = Put(active_markets, Head(s_markets).condition_id, Head(s_markets))
    /\ s_markets' = Tail(s_markets)
    /\ UNCHANGED <<match_cache, update_chan, signals, am_readers, am_writer, am_waiters,
                   cache_locked, pc, s_returned, s_before, s_failed, scans, f_live,
                   f_todo, f_update, p_update, p_signal, clock, sent_pairs,
                   aliases, raw_match,
                   main_result, series, event_replies,
                   event_requests>>

\* end of the Ok arm: the write guard is dropped
ScanRelease ==
    /\ pc["scanner"] = "insert"
    /\ s_markets = <<>>
    /\ am_writer' = FALSE
    /\ pc' = [pc EXCEPT !["scanner"] = "tick"]
    /\ UNCHANGED <<active_markets, match_cache, update_chan, signals, am_readers,
                   am_waiters, cache_locked, s_markets, s_returned, s_before, s_failed,
                   scans, f_live, f_todo, f_update, p_update, p_signal, clock, sent_pairs,
                   aliases, raw_match,
                   main_result, series, event_replies,
                   event_requests>>

-----------------------------------------------------------------------------
(* Market adapter, event by event: fetch_dota2_markets reads the series,    *)
(* keeps the ids of its active open events and asks the provider for each   *)
(* event's markets                                                           *)

SeriesEvent(id, active, closed) == [id |-> id, active |-> active, closed |-> closed]

MarketResponse(cid, outcomes, outcome_prices, sports_market_type, active, closed) ==
    [condition_id |-> cid, outcomes |-> outcomes, outcome_prices |-> outcome_prices,
     sports_market_type |-> sports_market_type, active |-> active, closed |-> closed]

\* None unless there are two outcomes and two prices; the names are trimmed
convert_market(market) ==
    IF Len(market.outcomes) # 2 \/ Len(market.outcome_prices) # 2 THEN None
    ELSE Some([condition_id |-> market.condition_id,
               team_a |-> trim(market.outcomes[1]),
               team_b |-> trim(market.outcomes[2]),
               team_a_odds |-> Odds(market.outcome_prices[1]),
               team_b_odds |-> Odds(market.outcome_prices[2])])

\* the loop over event.markets: moneyline markets that are active, open and
\* convertible
RECURSIVE event_markets_from(_, _)
event_markets_from(event_markets, i) ==
    IF i > Len(event_markets) THEN <<>>
    ELSE LET market == event_markets[i]
             is_moneyline == market.sports_market_type = Some("moneyline")
             pm == convert_market(market)
         IN IF ~is_moneyline \/ ~market.active \/ market.closed \/ pm = None
            THEN event_markets_from(event_markets, i + 1)
            ELSE << pm[1] >> \o event_markets_from(event_markets, i + 1)

\* Result<Vec<PolymarketMarket>> of one event request
fetch_event_markets(reply) ==
    CASE reply.kind = "transport_error" -> [ok |-> FALSE, markets |-> <<>>]
      [] reply.kind = "status_error" -> [ok |-> FALSE, markets |-> <<>>]
      [] reply.kind = "decode_error" -> [ok |-> FALSE, markets |-> <<>>]
      [] reply.kind = "ok" ->
            IF ~reply.event.active \/ reply.event.closed
            THEN [ok |-> TRUE, markets |-> <<>>]
            ELSE [ok |-> TRUE, markets |-> event_markets_from(reply.event.markets, 1)]

IsActiveEvent(e) == e.active /\ ~e.closed

\* series.events filtered by e.active && !e.closed, mapped to the ids
active_event_ids(events) ==
    LET kept == SelectSeq(events, IsActiveEvent)
    IN [i \in 1..Len(kept) |-> kept[i].id]

\* variant: the first failing event ends the pass with its error
RECURSIVE fetch_events_abort_from(_, _, _)
fetch_events_abort_from(ids, replies, i) ==
    IF i > Len(ids) THEN [ok |-> TRUE, markets |-> <<>>, requests |-> <<>>]
    ELSE LET r == fetch_event_markets(replies[ids[i]])
             rest == fetch_events_abort_from(ids, replies, i + 1)
         IN IF r.ok
            THEN [ok |-> rest.ok, markets |-> r.markets \o rest.markets,
                  requests |-> << ids[i] >> \o rest.requests]
            ELSE [ok |-> FALSE, markets |-> <<>>, requests |-> << ids[i] >>]

fetch_events_abort(events, replies) ==
    fetch_events_abort_from(active_event_ids(events), replies, 1)

\* the for loop over active_event_ids: Ok extends markets, Err is logged
RECURSIVE fetch_events_from(_, _, _)
fetch_events_from(ids, replies, i) ==
    IF i > Len(ids) THEN [ok |-> TRUE, markets |-> <<>>, requests |-> <<>>]
    ELSE LET r == fetch_event_markets(replies[ids[i]])
             rest == fetch_events_from(ids, replies, i + 1)
         IN [ok |-> TRUE,
             markets |-> (IF r.ok THEN r.markets ELSE <<>>) \o rest.markets,
             requests |-> << ids[i] >> \o rest.requests]

\* steps 2 to 4 of fetch_dota2_markets, the series decoded
fetch_events(events, replies) ==
    fetch_events_from(active_event_ids(events), replies, 1)

\* a scan whose series request is answered with `series`
ScanFetchEvents ==
    /\ pc["scanner"] = "tick"
    /\ scans < MaxScans
    /\ series # None
    /\ scans' = scans + 1
    /\ s_before' = active_markets
    /\ s_failed' = FALSE
    /\ LET r == fetch_events(series[1].events, event_replies)
       IN /\ event_requests' = r.requests
          /\ IF r.ok
             THEN /\ s_markets' = r.markets
                  /\ s_returned' = Some(r.markets)
                  /\ Acquire("scanner", "write_wait")
             ELSE /\ pc' = pc
                  /\ UNCHANGED <<s_markets, s_returned, am_readers, am_writer, am_waiters>>
    /\ UNCHANGED <<active_markets, match_cache, update_chan, signals, cache_locked,
                   f_live, f_todo, f_update, p_update, p_signal, clock, sent_pairs,
                   aliases, raw_match, main_result, series, event_replies>>

-----------------------------------------------------------------------------
(* Live fetcher worker *)

\* the live-data adapter stamps every state it converts with Utc::now()
Stamp(matches, now) ==
    [i \in 1..Len(matches) |-> [matches[i] EXCEPT !.updated_at = now]]

\* variant: the previous state is never looked up
cache_get_never(cache, match_id) == None

\* cache.get(&match_id).cloned()
cache_get(cache, match_id) ==
    IF match_id \in DOMAIN cache THEN Some(cache[match_id]) ELSE None

\* variant: every live match returned is cached, matched or not
RECURSIVE cache_all(_, _)
cache_all(cache, live_matches) ==
    IF live_matches = <<>> THEN cache
    ELSE cache_all(Put(cache, Head(live_matches).match_id, Head(live_matches)),
                   Tail(live_matches))

visit_market_cache_all(market, live_matches, cache) ==
    LET match_result == match_market_to_live(market, live_matches)
    IN IF match_result.found
       THEN LET match_id == match_result.match_state.match_id
            IN [cache |-> Put(cache_all(cache, live_matches), match_id, match_result.match_state),
                update |-> Some([market_condition_id |-> market.condition_id,
                                 state |-> match_result.match_state,
                                 previous_state |-> IF match_id \in DOMAIN cache
                                                    THEN Some(cache[match_id]) ELSE None])]
       ELSE [cache |-> cache_all(cache, live_matches), update |-> None]

\* variant: the previous state is read after the new state was inserted
visit_market_insert_first(market, live_matches, cache) ==
    LET match_result == match_market_to_live(market, live_matches)
    IN IF match_result.found
       THEN LET match_id == match_result.match_state.match_id
                inserted == Put(cache, match_id, match_result.match_state)
            IN [cache |-> inserted,
                update |-> Some([market_condition_id |-> market.condition_id,
                                 state |-> match_result.match_state,
                                 previous_state |-> cache_get(inserted, match_id)])]
       ELSE [cache |-> cache, update |-> None]

\* one pass of the loop over markets.values(): the cache after it and the
\* update it sends, if any
visit_market(market, live_matches, cache) ==
    LET match_result == match_market_to_live(market, live_matches)
    IN IF match_result.found
       THEN LET match_id == match_result.match_state.match_id
                previous_state == cache_get(cache, match_id)
            IN [cache |-> Put(cache, match_id, match_result.match_state),
                update |-> Some([market_condition_id |-> market.condition_id,
                                 state |-> match_result.match_state,
                                 previous_state |-> previous_state])]
       ELSE [cache |-> cache, update |-> None]

\* the (market, match) pair an update is about
pair_of(update) == <<update.market_condition_id, update.state.match_id>>

\* variant: the update is put at the front of the channel
chan_send_front(chan, update) == <<update>> \o chan

\* update_tx.send(update): the channel after the send
chan_send(chan, update) == Append(chan, update)

\* update_rx.recv(): the update received
chan_recv(chan) == Head(chan)

\* a timer tick: fetch() begins and asks for the first read guard
FetchStart ==
    /\ pc["fetcher"] = "tick"
    /\ clock < MaxTicks
    /\ Acquire("fetcher", "read1_wait")
    /\ UNCHANGED <<active_markets, match_cache, update_chan, signals, cache_locked,
                   s_markets, s_returned, s_before, s_failed, scans, f_live, f_todo,
                   f_update, p_update, p_signal, clock, sent_pairs, aliases, raw_match,
                   main_result, series, event_replies,
                   event_requests>>

\* variant: the provider is polled also when there is no active market
FetchCheckNoSkip ==
    /\ pc["fetcher"] = "check"
    /\ am_readers' = am_readers \ {"fetcher"}
    /\ pc' = [pc EXCEPT !["fetcher"] = "http"]
    /\ UNCHANGED <<active_markets, match_cache, update_chan, signals, am_writer,
                   am_waiters, cache_locked, s_markets, s_returned, s_before, s_failed,
                   scans, f_live, f_todo, f_update, p_update, p_signal, clock, sent_pairs,
                   aliases, raw_match,
                   main_result, series, event_replies,
                   event_requests>>

\* markets.is_empty() under the first guard, which is then dropped
FetchCheck ==
    /\ pc["fetcher"] = "check"
    /\ am_readers' = am_readers \ {"fetcher"}
    /\ pc' = [pc EXCEPT !["fetcher"] = IF DOMAIN active_markets = {} THEN "tick" ELSE "http"]
    /\ UNCHANGED <<active_markets, match_cache, update_chan, signals, am_writer,
                   am_waiters, cache_locked, s_markets, s_returned, s_before, s_failed,
                   scans, f_live, f_todo, f_update, p_update, p_signal, clock, sent_pairs,
                   aliases, raw_match,
                   main_result, series, event_replies,
                   event_requests>>

\* fetch_live_matches returns; with matches the fetcher asks for the second
\* read guard
FetchHttp ==
    /\ pc["fetcher"] = "http"
    /\ clock' = clock + 1
    /\ \E reply \in LiveReplies :
         IF reply.ok /\ reply.matches # <<>>
         THEN /\ f_live' = Stamp(reply.matches, clock')
              /\ Acquire("fetcher", "read2_wait")
         ELSE /\ pc' = [pc EXCEPT !["fetcher"] = "tick"]
              /\ UNCHANGED <<f_live, am_readers, am_writer, am_waiters>>
    /\ UNCHANGED <<active_markets, match_cache, update_chan, signals, cache_locked,
                   s_markets, s_returned, s_before, s_failed, scans, f_todo, f_update,
                   p_update, p_signal, sent_pairs, aliases, raw_match,
                   main_result, series, event_replies,
                   event_requests>>

\* match_cache.write().await, then the loop over markets.values() begins
FetchLockCache ==
    /\ pc["fetcher"] = "cache"
    /\ ~cache_locked
    /\ cache_locked' = TRUE
    /\ f_todo' = DOMAIN active_markets
    /\ pc' = [pc EXCEPT !["fetcher"] = "loop"]
    /\ UNCHANGED <<active_markets, match_cache, update_chan, signals, am_readers,
                   am_writer, am_waiters, s_markets, s_returned, s_before, s_failed, scans,
                   f_live, f_update, p_update, p_signal, clock, sent_pairs,
                   aliases, raw_match,
                   main_result, series, event_replies,
                   event_requests>>

\* variant: a visited market stays among the markets to visit
FetchMarketAgain ==
    /\ pc["fetcher"] = "loop"
    /\ \E cid \in f_todo :
         LET r == visit_market(active_markets[cid], f_live, match_cache)
         IN /\ f_todo' = f_todo
            /\ match_cache' = r.cache
            /\ f_update' = r.update
            /\ pc' = [pc EXCEPT !["fetcher"] = IF r.update = None THEN "loop" ELSE "send"]
    /\ UNCHANGED <<active_markets, update_chan, signals, am_readers, am_writer,
                   am_waiters, cache_locked, s_markets, s_returned, s_before, s_failed,
                   scans, f_live, p_update, p_signal, clock, sent_pairs,
                   aliases, raw_match, main_result, series, event_replies,
                   event_requests>>

\* the next market of markets.values(), in the map's arbitrary order
FetchMarket ==
    /\ pc["fetcher"] = "loop"
    /\ \E cid \in f_todo :
         LET r == visit_market(active_markets[cid], f_live, match_cache)
         IN /\ f_todo' = f_todo \ {cid}
            /\ match_cache' = r.cache
            /\ f_update' = r.update
            /\ pc' = [pc EXCEPT !["fetcher"] = IF r.update = None THEN "loop" ELSE "send"]
    /\ UNCHANGED <<active_markets, update_chan, signals, am_readers, am_writer,
                   am_waiters, cache_locked, s_markets, s_returned, s_before, s_failed,
                   scans, f_live, p_update, p_signal, clock, sent_pairs,
                   aliases, raw_match,
                   main_result, series, event_replies,
                   event_requests>>

\* variant: try_send, which gives the update up when the channel is full
FetchTrySend ==
    /\ pc["fetcher"] = "send"
    /\ update_chan' = IF Len(update_chan) < ChanCap
                      THEN chan_send(update_chan, f_update[1]) ELSE update_chan
    /\ sent_pairs' = sent_pairs \cup {pair_of(f_update[1])}
    /\ f_update' = None
    /\ pc' = [pc EXCEPT !["fetcher"] = "loop"]
    /\ UNCHANGED <<active_markets, match_cache, signals, am_readers, am_writer,
                   am_waiters, cache_locked, s_markets, s_returned, s_before, s_failed,
                   scans, f_live, f_todo, p_update, p_signal, clock, aliases, raw_match,
                   main_result, series, event_replies,
                   event_requests>>

\* update_rx was moved into the processor and is dropped with its task
receiver_dropped == pc["processor"] = "exited"

\* variant: fetch() returns at the first failed send
FetchSendClosedReturn ==
    /\ pc["fetcher"] = "send"
    /\ receiver_dropped
    /\ f_update' = None
    /\ am_readers' = am_readers \ {"fetcher"}
    /\ cache_locked' = FALSE
    /\ f_live' = <<>>
    /\ f_todo' = {}
    /\ pc' = [pc EXCEPT !["fetcher"] = "tick"]
    /\ UNCHANGED <<active_markets, match_cache, update_chan, signals, am_writer,
                   am_waiters, s_markets, s_returned, s_before, s_failed, scans,
                   p_update, p_signal, clock, sent_pairs, aliases, raw_match,
                   main_result, series, event_replies, event_requests>>

\* update_tx.send(update).await returns Err, the channel being closed: a
\* warning is logged and the loop goes on
FetchSendClosed ==
    /\ pc["fetcher"] = "send"
    /\ receiver_dropped
    /\ f_update' = None
    /\ pc' = [pc EXCEPT !["fetcher"] = "loop"]
    /\ UNCHANGED <<active_markets, match_cache, update_chan, signals, am_readers,
                   am_writer, am_waiters, cache_locked, s_markets, s_returned, s_before,
                   s_failed, scans, f_live, f_todo, p_update, p_signal, clock, sent_pairs,
                   aliases, raw_match, main_result, series, event_replies,
                   event_requests>>

\* update_tx.send(update).await completes once the channel has capacity
FetchSend ==
    /\ pc["fetcher"] = "send"
    /\ ~receiver_dropped
    /\ Len(update_chan) < ChanCap
    /\ update_chan' = chan_send(update_chan, f_update[1])
    /\ sent_pairs' = sent_pairs \cup {pair_of(f_update[1])}
    /\ f_update' = None
    /\ pc' = [pc EXCEPT !["fetcher"] = "loop"]
    /\ UNCHANGED <<active_markets, match_cache, signals, am_readers, am_writer,
                   am_waiters, cache_locked, s_markets, s_returned, s_before, s_failed,
                   scans, f_live, f_todo, p_update, p_signal, clock, aliases, raw_match,
                   main_result, series, event_replies,
                   event_requests>>

\* variant: the cache is emptied at the end of every pass
FetchDonePrune ==
    /\ pc["fetcher"] = "loop"
    /\ f_todo = {}
    /\ am_readers' = am_readers \ {"fetcher"}
    /\ cache_locked' = FALSE
    /\ f_live' = <<>>
    /\ match_cache' = EmptyMap
    /\ pc' = [pc EXCEPT !["fetcher"] = "tick"]
    /\ UNCHANGED <<active_markets, update_chan, signals, am_writer,
                   am_waiters, s_markets, s_returned, s_before, s_failed, scans, f_todo,
                   f_update, p_update, p_signal, clock, sent_pairs, aliases, raw_match,
                   main_result, series, event_replies, event_requests>>

\* the loop is over: fetch() returns and both guards are dropped
FetchDone ==
    /\ pc["fetcher"] = "loop"
    /\ f_todo = {}
    /\ am_readers' = am_readers \ {"fetcher"}
    /\ cache_locked' = FALSE
    /\ f_live' = <<>>
    /\ pc' = [pc EXCEPT !["fetcher"] = "tick"]
    /\ UNCHANGED <<active_markets, match_cache, update_chan, signals, am_writer,
                   am_waiters, s_markets, s_returned, s_before, s_failed, scans, f_todo,
                   f_update, p_update, p_signal, clock, sent_pairs, aliases, raw_match,
                   main_result, series, event_replies,
                   event_requests>>

-----------------------------------------------------------------------------
(* Signal processor worker *)

\* variant: one row per (market, match), replaced by a later signal
insert_signal_upsert(rows, signal) ==
    IF \E i \in 1..Len(rows) :
          /\ rows[i].market_condition_id = signal.market_condition_id
          /\ rows[i].match_id = signal.match_id
    THEN [i \in 1..Len(rows) |->
            IF /\ rows[i].market_condition_id = signal.market_condition_id
               /\ rows[i].match_id = signal.match_id
            THEN [signal EXCEPT !.id = rows[i].id] ELSE rows[i]]
    ELSE Append(rows, [signal EXCEPT !.id = Some(Len(rows) + 1)])

\* the row insert_signal writes: the id is the table's AUTOINCREMENT key
insert_signal(rows, signal) ==
    Append(rows, [signal EXCEPT !.id = Some(Len(rows) + 1)])

Reverse(seq) == [i \in 1..Len(seq) |-> seq[Len(seq) + 1 - i]]

RowOfMatch(row, match_id) == row.match_id = match_id

\* SELECT * FROM signals WHERE match_id = ? ORDER BY created_at DESC LIMIT ?
\* (the one processor stamps and inserts its signals one after the other:
\* the newest row is the last inserted)
get_signals_for_match(rows, match_id, limit) ==
    LET found == Reverse(SelectSeq(rows, LAMBDA row : RowOfMatch(row, match_id)))
    IN SubSeq(found, 1, Min(limit, Len(found)))

\* SELECT COUNT(*) FROM signals
get_signal_count(rows) == Len(rows)

\* markets.get(&update.market_condition_id)
lookup_market(markets, update) ==
    IF update.market_condition_id \in DOMAIN markets
    THEN Some(markets[update.market_condition_id]) ELSE None

\* update_rx.recv() yields an update; process_update asks for a read guard
ProcRecv ==
    /\ pc["processor"] = "recv"
    /\ update_chan # <<>>
    /\ p_update' = Some(chan_recv(update_chan))
    /\ update_chan' = Tail(update_chan)
    /\ Acquire("processor", "read_wait")
    /\ UNCHANGED <<active_markets, match_cache, signals, cache_locked, s_markets,
                   s_returned, s_before, s_failed, scans, f_live, f_todo, f_update,
                   p_signal, clock, sent_pairs, aliases, raw_match,
                   main_result, series, event_replies,
                   event_requests>>

\* variant: an update whose market is absent is scored against even odds
\* instead of being dropped
ProcLookupUnchecked ==
    /\ pc["processor"] = "lookup"
    /\ LET found == lookup_market(active_markets, p_update[1])
           market == IF found = None THEN [team_a_odds |-> Odds(50)] ELSE found[1]
       IN p_signal' = Some(build_signal(p_update[1], market))
    /\ pc' = [pc EXCEPT !["processor"] = "insert"]
    /\ UNCHANGED <<active_markets, match_cache, update_chan, signals, am_readers,
                   am_writer, am_waiters, cache_locked, s_markets, s_returned, s_before,
                   s_failed, scans, f_live, f_todo, f_update, p_update, clock, sent_pairs,
                   aliases, raw_match,
                   main_result, series, event_replies,
                   event_requests>>

\* the market is looked up: absent, the update is dropped and the guard
\* released; present, the signal is built and insert_signal is called
ProcLookup ==
    /\ pc["processor"] = "lookup"
    /\ LET market == lookup_market(active_markets, p_update[1])
       IN IF market = None
          THEN /\ am_readers' = am_readers \ {"processor"}
               /\ p_update' = None
               /\ p_signal' = None
               /\ pc' = [pc EXCEPT !["processor"] = "recv"]
          ELSE /\ p_signal' = Some(build_signal(p_update[1], market[1]))
               /\ pc' = [pc EXCEPT !["processor"] = "insert"]
               /\ UNCHANGED <<am_readers, p_update>>
    /\ UNCHANGED <<active_markets, match_cache, update_chan, signals, am_writer,
                   am_waiters, cache_locked, s_markets, s_returned, s_before, s_failed,
                   scans, f_live, f_todo, f_update, clock, sent_pairs,
                   aliases, raw_match,
                   main_result, series, event_replies,
                   event_requests>>

\* variant: the processor removes the market of a stored signal
ProcInsertEvict ==
    /\ pc["processor"] = "insert"
    /\ signals' = insert_signal(signals, p_signal[1])
    /\ active_markets' = [cid \in DOMAIN active_markets \ {p_signal[1].market_condition_id}
                            |-> active_markets[cid]]
    /\ am_readers' = am_readers \ {"processor"}
    /\ p_update' = None
    /\ p_signal' = None
    /\ pc' = [pc EXCEPT !["processor"] = "recv"]
    /\ UNCHANGED <<match_cache, update_chan, am_writer, am_waiters,
                   cache_locked, s_markets, s_returned, s_before, s_failed, scans, f_live,
                   f_todo, f_update, clock, sent_pairs, aliases, raw_match,
                   main_result, series, event_replies, event_requests>>

\* insert_signal returns Ok(id); process_update returns and the read guard
\* is dropped
ProcInsert ==
    /\ pc["processor"] = "insert"
    /\ signals' = insert_signal(signals, p_signal[1])
    /\ am_readers' = am_readers \ {"processor"}
    /\ p_update' = None
    /\ p_signal' = None
    /\ pc' = [pc EXCEPT !["processor"] = "recv"]
    /\ UNCHANGED <<active_markets, match_cache, update_chan, am_writer, am_waiters,
                   cache_locked, s_markets, s_returned, s_before, s_failed, scans, f_live,
                   f_todo, f_update, clock, sent_pairs, aliases, raw_match,
                   main_result, series, event_replies,
                   event_requests>>

\* variant: the update of a failed insert is put back for another try
ProcInsertErrRetry ==
    /\ pc["processor"] = "insert"
    /\ update_chan' = <<p_update[1]>> \o update_chan
    /\ am_readers' = am_readers \ {"processor"}
    /\ p_update' = None
    /\ p_signal' = None
    /\ pc' = [pc EXCEPT !["processor"] = "recv"]
    /\ UNCHANGED <<active_markets, match_cache, signals, am_writer,
                   am_waiters, cache_locked, s_markets, s_returned, s_before, s_failed,
                   scans, f_live, f_todo, f_update, clock, sent_pairs, aliases, raw_match,
                   main_result, series, event_replies,
                   event_requests>>

\* insert_signal returns Err: the error is logged, nothing is written
ProcInsertErr ==
    /\ pc["processor"] = "insert"
    /\ am_readers' = am_readers \ {"processor"}
    /\ p_update' = None
    /\ p_signal' = None
    /\ pc' = [pc EXCEPT !["processor"] = "recv"]
    /\ UNCHANGED <<active_markets, match_cache, update_chan, signals, am_writer,
                   am_waiters, cache_locked, s_markets, s_returned, s_before, s_failed,
                   scans, f_live, f_todo, f_update, clock, sent_pairs,
                   aliases, raw_match,
                   main_result, series, event_replies,
                   event_requests>>

-----------------------------------------------------------------------------
(* Live-data adapter: conversion of a provider record.  A building_state   *)
(* (i64) is held as the set of the positions of its 1 bits.                 *)

unwrap_or(opt, default) == IF opt = None THEN default ELSE opt[1]

\* `state as u32`: the low 32 bits
as_u32(bits) == {i \in bits : i < 32}

\* (bits >> n) & mask, with mask = 2^width - 1
shr_and(bits, n, width) == {i - n : i \in {j \in bits : j >= n /\ j < n + width}}

count_ones(bits) == Cardinality(bits)

\* (radiant_towers_killed, dire_towers_killed, radiant_rax_killed,
\* dire_rax_killed): the buildings each side has lost
parse_building_state(building_state) ==
    IF building_state = None THEN <<0, 0, 0, 0>>
    ELSE LET state == as_u32(building_state[1])
             radiant_towers == shr_and(state, 0, 11)
             radiant_rax == shr_and(state, 11, 6)
             dire_towers == shr_and(state, 18, 11)
             dire_rax == shr_and(state, 29, 6)
         IN << 11 - count_ones(radiant_towers), 11 - count_ones(dire_towers),
               6 - count_ones(radiant_rax), 6 - count_ones(dire_rax) >>

\* the live-data TeamState has no net worth: the field the processor reads
\* is carried at 0
convert_match(data) ==
    LET killed == parse_building_state(data.building_state)
        radiant_towers_killed == killed[1]
        dire_towers_killed == killed[2]
        radiant_rax_killed == killed[3]
        dire_rax_killed == killed[4]
    IN [match_id |-> unwrap_or(data.match_id, 0),
        radiant |-> [name |-> unwrap_or(data.team_name_radiant, <<"R","a","d","i","a","n","t">>),
                     kills |-> unwrap_or(data.radiant_score, 0),
                     towers_killed |-> dire_towers_killed,
                     barracks_killed |-> dire_rax_killed,
                     net_worth |-> 0],
        dire |-> [name |-> unwrap_or(data.team_name_dire, <<"D","i","r","e">>),
                  kills |-> unwrap_or(data.dire_score, 0),
                  towers_killed |-> radiant_towers_killed,
                  barracks_killed |-> radiant_rax_killed,
                  net_worth |-> 0],
        gold_lead |-> unwrap_or(data.radiant_lead, 0),
        game_time |-> unwrap_or(data.game_time, 0),
        updated_at |-> clock]

\* a record of the provider's reply; match_id is the number its string
\* parses to, None when it parses to none
OpenDotaLiveMatch(building_state) ==
    [match_id |-> Some(7),
     team_name_radiant |-> Some(<<"T","S">>), team_name_dire |-> Some(<<"o","g">>),
     radiant_score |-> Some(6), dire_score |-> Some(1),
     radiant_lead |-> Some(6000), game_time |-> Some(1800),
     building_state |-> building_state]

\* the documented layout: 11 radiant towers, 6 radiant barracks, 11 dire
\* towers, 6 dire barracks, a 1 bit for a building alive
AllAlive == 0..33

\* the first and the last bit of each field of the layout
ProbeBits == {0, 10, 11, 16, 17, 27, 28, 33}

\* building states of the layout: all alive but a set of the probed buildings
BuildingStates == { AllAlive \ destroyed : destroyed \in SUBSET ProbeBits }

\* one record of the reply is converted
ConvertMatch ==
    /\ raw_match # None
    /\ f_live = <<>>
    /\ f_live' = << convert_match(raw_match[1]) >>
    /\ UNCHANGED <<active_markets, match_cache, update_chan, signals, am_readers,
                   am_writer, am_waiters, cache_locked, pc, s_markets, s_returned, s_before,
                   s_failed, scans, f_todo, f_update, p_update, p_signal, clock, sent_pairs,
                   aliases, raw_match,
                   main_result, series, event_replies,
                   event_requests>>

-----------------------------------------------------------------------------
(* The system.  Spec runs the pipeline over a store that accepts every      *)
(* insert; SpecStoreErr adds the store's failures.                          *)

Init ==
    /\ active_markets = EmptyMap
    /\ match_cache = EmptyMap
    /\ update_chan = <<>>
    /\ signals = <<>>
    /\ am_readers = {}
    /\ am_writer = FALSE
    /\ am_waiters = <<>>
    /\ cache_locked = FALSE
    /\ pc = [w \in Workers |-> IF w = "processor" THEN "recv" ELSE "tick"]
    /\ s_markets = <<>>
    /\ s_returned = None
    /\ s_before = EmptyMap
    /\ s_failed = FALSE
    /\ scans = 0
    /\ f_live = <<>>
    /\ f_todo = {}
    /\ f_update = None
    /\ p_update = None
    /\ p_signal = None
    /\ clock = 0
    /\ sent_pairs = {}
    /\ aliases = load_team_resolver
    /\ raw_match = None
    /\ main_result = None
    /\ series = None
    /\ event_replies = EmptyMap
    /\ event_requests = <<>>

Next ==
    \/ ScanFetch \/ ScanClear \/ ScanInsert \/ ScanRelease
    \/ FetchStart \/ FetchCheck \/ FetchHttp \/ FetchLockCache \/ FetchMarket
    \/ FetchSend \/ FetchDone
    \/ ProcRecv \/ ProcLookup \/ ProcInsert
    \/ Granted

Spec == Init /\ [][Next]_vars

SpecStoreErr == Init /\ [][Next \/ ProcInsertErr]_vars

-----------------------------------------------------------------------------
(* The supervisor: main spawns the three workers and waits in select! for   *)
(* ctrl_c or for one of the three JoinHandles.  A handle is ready when its  *)
(* task has ended: run returned (the processor, on a closed channel) or the *)
(* task panicked.                                                           *)

\* update_tx was moved into the fetcher and is dropped with its task
sender_dropped == pc["fetcher"] = "exited"

Without(queue, w) == SelectSeq(queue, LAMBDA x : x # w)

\* the task of worker w panics: its future is dropped with the guards it
\* holds and its place in the lock's queue; the receiver dropped with the
\* processor drops the updates still on the channel
TaskAborted(w) ==
    /\ main_result = None
    /\ pc[w] # "exited"
    /\ pc' = [pc EXCEPT ![w] = "exited"]
    /\ am_readers' = am_readers \ {w}
    /\ am_writer' = IF w = "scanner" THEN FALSE ELSE am_writer
    /\ am_waiters' = Without(am_waiters, w)
    /\ cache_locked' = IF w = "fetcher" THEN FALSE ELSE cache_locked
    /\ update_chan' = IF w = "processor" THEN <<>> ELSE update_chan
    /\ UNCHANGED <<active_markets, match_cache, signals, s_markets,
                   s_returned, s_before, s_failed, scans, f_live, f_todo, f_update,
                   p_update, p_signal, clock, sent_pairs, aliases, raw_match,
                   main_result, series, event_replies,
                   event_requests>>

\* variant: the processor keeps waiting on a closed channel
ProcClosedNever ==
    /\ FALSE
    /\ UNCHANGED vars

\* update_rx.recv() yields None, the channel being closed and empty: the
\* while-let loop ends and run returns
ProcClosed ==
    /\ main_result = None
    /\ pc["processor"] = "recv"
    /\ update_chan = <<>>
    /\ sender_dropped
    /\ pc' = [pc EXCEPT !["processor"] = "exited"]
    /\ UNCHANGED <<active_markets, match_cache, update_chan, signals, am_readers,
                   am_writer, am_waiters, cache_locked, s_markets, s_returned, s_before,
                   s_failed, scans, f_live, f_todo, f_update, p_update, p_signal, clock,
                   sent_pairs, aliases, raw_match, main_result, series, event_replies,
                   event_requests>>

\* main returns Ok(()) after the select!, whichever arm was taken: the
\* process ends with code 0, the runtime is dropped with the tasks and all
\* they own, the signal table stays on disk
main_returns(arm) ==
    /\ main_result' = Some([arm |-> arm, code |-> 0])
    /\ pc' = [w \in Workers |-> "exited"]
    /\ active_markets' = EmptyMap
    /\ match_cache' = EmptyMap
    /\ update_chan' = <<>>
    /\ am_readers' = {}
    /\ am_writer' = FALSE
    /\ am_waiters' = <<>>
    /\ cache_locked' = FALSE
    /\ s_markets' = <<>>
    /\ s_returned' = None
    /\ s_before' = EmptyMap
    /\ s_failed' = FALSE
    /\ f_live' = <<>>
    /\ f_todo' = {}
    /\ f_update' = None
    /\ p_update' = None
    /\ p_signal' = None
    /\ UNCHANGED <<signals, scans, clock, sent_pairs, aliases, raw_match, series,
                   event_replies, event_requests>>

\* tokio::signal::ctrl_c() completes
ctrl_c ==
    /\ main_result = None
    /\ main_returns("ctrl_c")

\* the JoinHandle of worker w completes
handle_ready(w) ==
    /\ main_result = None
    /\ pc[w] = "exited"
    /\ main_returns(w)

NextSupervise ==
    \/ main_result = None /\ Next
    \/ \E w \in Workers : TaskAborted(w)
    \/ main_result = None /\ FetchSendClosed
    \/ ProcClosed
    \/ ctrl_c
    \/ \E w \in Workers : handle_ready(w)

\* the runtime polls every task that can run: the processor, the scanner
\* while it holds the write guard and the lock's queue make progress, and a
\* ready processor handle is seen by select!
SpecSupervise ==
    /\ Init
    /\ [][NextSupervise]_vars
    /\ WF_vars(main_result = None /\ (ProcRecv \/ ProcLookup \/ ProcInsert))
    /\ WF_vars(ProcClosed)
    /\ WF_vars(main_result = None /\ Granted)
    /\ WF_vars(main_result = None /\ (ScanClear \/ ScanInsert \/ ScanRelease))
    /\ WF_vars(handle_ready("processor"))

-----------------------------------------------------------------------------
(* The signal processor alone, run on updates drawn from a set: the channel *)
(* holds the updates, ActiveMarkets their markets, and the scanner and the  *)
(* fetcher do not run.                                                      *)

\* the state main constructs, but for the given markets, channel content,
\* provider record and alias table
Constructed(markets, chan, raw, table) ==
    /\ active_markets = markets
    /\ match_cache = EmptyMap
    /\ update_chan = chan
    /\ signals = <<>>
    /\ am_readers = {}
    /\ am_writer = FALSE
    /\ am_waiters = <<>>
    /\ cache_locked = FALSE
    /\ pc = [w \in Workers |-> IF w = "processor" THEN "recv" ELSE "tick"]
    /\ s_markets = <<>>
    /\ s_returned = None
    /\ s_before = EmptyMap
    /\ s_failed = FALSE
    /\ scans = 0
    /\ f_live = <<>>
    /\ f_todo = {}
    /\ f_update = None
    /\ p_update = None
    /\ p_signal = None
    /\ clock = 0
    /\ sent_pairs = {}
    /\ aliases = table
    /\ raw_match = raw
    /\ main_result = None
    /\ series = None
    /\ event_replies = EmptyMap
    /\ event_requests = <<>>

NextProcess == ProcRecv \/ ProcLookup \/ ProcInsert

Update(cid, state, previous_state) ==
    [market_condition_id |-> cid, state |-> state, previous_state |-> previous_state]

\* previous states of match 7: every mix of one tower and one barracks
\* already taken on either side, at minute 35
ClassifyPrevious ==
    { Live(7, Team(<<"S","p">>, 0, t, b, 0), Team(<<"o","g">>, 0, td, bd, 0), 0, 2100) :
        t \in {0, 1}, b \in {0, 1}, td \in {0, 1}, bd \in {0, 1} }

\* current states of match 7: kills below and at the spree threshold,
\* building counts above, at and below the previous ones, net worth and gold
\* lead below and at the swing threshold and independent of each other, game
\* time at and past minute 35
ClassifyCurrent ==
    { Live(7, Team(<<"S","p">>, k, t, b, nw), Team(<<"o","g">>, 0, td, bd, 0), lead, time) :
        k \in {0, 4, 5}, t \in {0, 1}, b \in {0, 1}, td \in {0, 1}, bd \in {0, 1},
        nw \in {0, 4999, 5000}, lead \in {0, 5000}, time \in {2100, 2101} }

InitClassify ==
    \E previous \in ClassifyPrevious : \E current \in ClassifyCurrent :
        Constructed(Put(EmptyMap, "X", MX), << Update("X", current, Some(previous)) >>, None,
                    load_team_resolver)

SpecClassify == InitClassify /\ [][NextProcess]_vars

\* states of match 7 at the ends of the ranges: no or many kills, no or all
\* towers and barracks taken, no or a large net worth on either side, game
\* times before the start, at the start, at and past minute 40
ScoreStates ==
    { Live(7, Team(<<"S","p">>, kr, tr, br, nwr), Team(<<"o","g">>, kd, td, bd, nwd),
           nwr - nwd, time) :
        kr \in {0, 40}, kd \in {0, 40}, tr \in {0, 11}, td \in {0, 11},
        br \in {0, 6}, bd \in {0, 6}, nwr \in {0, 30000}, nwd \in {0, 30000},
        time \in {-7200, -4800, 0, 2400, 6000} }

InitScore ==
    \E state \in ScoreStates :
        Constructed(Put(EmptyMap, "X", MX), << Update("X", state, None) >>, None,
                    load_team_resolver)

SpecScore == InitScore /\ [][NextProcess]_vars

\* market odds of team A, in percent, from 0.15 below to 0.15 above even
OddsPcts == 35..65

\* states of match 7 at its start with radiant one unit of net worth behind,
\* level or ahead: win probabilities 0.49999, 0.5 and 0.50001
EvenStates ==
    { Live(7, Team(<<"S","p">>, 0, 0, 0, nw), Team(<<"o","g">>, 0, 0, 0, 1), nw - 1, 0) :
        nw \in {0, 1, 2} }

\* two markets on match 7, each with its own odds, and one update for each
InitStrength ==
    \E a \in OddsPcts : \E b \in OddsPcts :
        \E x \in EvenStates : \E y \in EvenStates :
            Constructed(Put(Put(EmptyMap, "X", Market("X", <<"S","p">>, <<"O","G">>, a)),
                            "Y", Market("Y", <<"O","G">>, <<"T","S">>, b)),
                        << Update("X", x, None), Update("Y", y, None) >>, None,
                        load_team_resolver)

SpecStrength == InitStrength /\ [][NextProcess]_vars

\* updates for the markets X and Y: first and later updates of match 7, and
\* of match 9
StoreUpdates ==
    { Update(cid, state, previous_state) :
        cid \in {"X", "Y"}, state \in {G7a, G7b, G9}, previous_state \in {None, Some(G7a)} }

\* two updates on the channel, also twice the same, and a store whose
\* inserts can fail
InitStore ==
    \E first \in StoreUpdates : \E second \in StoreUpdates :
        Constructed(Put(Put(EmptyMap, "X", MX), "Y", MY), << first, second >>, None,
                    load_team_resolver)

SpecStore == InitStore /\ [][NextProcess \/ ProcInsertErr]_vars

-----------------------------------------------------------------------------
(* The live-data adapter alone, run on provider records drawn from a set    *)

InitConvert ==
    \E building_state \in {None} \cup {Some(b) : b \in BuildingStates} :
        Constructed(EmptyMap, <<>>, Some(OpenDotaLiveMatch(building_state)), load_team_resolver)

SpecConvert == InitConvert /\ [][ConvertMatch]_vars

-----------------------------------------------------------------------------
(* The team resolver alone: a table loaded from a file or empty, grown by   *)
(* add_alias calls                                                          *)

\* names as they are registered and looked up: lower and upper case, with
\* and without surrounding space
ProbeNames == { <<"s">>, <<"S">>, <<"p">>, <<"o">>, <<" ","p">> }

\* alias files: none of the teams shares a name, or the canonical name of
\* one team is an alias of another
AliasFiles ==
    { TeamAliasesFile,
      << [canonical |-> <<"S">>, aliases |-> << <<"p">> >>],
         [canonical |-> <<"o">>, aliases |-> << <<"s">> >>] >> }

InitResolver ==
    \E table \in {EmptyMap} \cup {load_from_file(file, EmptyMap) : file \in AliasFiles} :
        Constructed(EmptyMap, <<>>, None, table)

AddAlias ==
    /\ \E alias \in ProbeNames : \E canonical \in ProbeNames :
          aliases' = add_alias(aliases, alias, canonical)
    /\ UNCHANGED <<active_markets, match_cache, update_chan, signals, am_readers,
                   am_writer, am_waiters, cache_locked, pc, s_markets, s_returned, s_before,
                   s_failed, scans, f_live, f_todo, f_update, p_update, p_signal, clock,
                   sent_pairs, raw_match,
                   main_result, series, event_replies,
                   event_requests>>

SpecResolver == InitResolver /\ [][AddAlias]_vars

-----------------------------------------------------------------------------
(* The fetcher's join alone: the fetcher is in its loop over               *)
(* markets.values(), holding both guards, for one market and a list of     *)
(* live matches drawn from sets                                             *)

\* two names of one team (TS is an alias of Sp) and another team
MatchNames == { <<"S","p">>, <<"T","S">>, <<"O","G">> }

MatchMarkets == { Market("X", a, b, 50) : a \in MatchNames, b \in MatchNames }

MatchLive(id) ==
    { Live(id, Team(r, 0, 0, 0, 0), Team(d, 0, 0, 0, 0), 0, 0) :
        r \in MatchNames, d \in MatchNames }

\* no live match, match 7, or match 7 followed by match 9
MatchLists ==
    { <<>> } \cup { <<x>> : x \in MatchLive(7) }
    \cup { <<x, y>> : x \in MatchLive(7), y \in MatchLive(9) }

InitMatch ==
    /\ \E market \in MatchMarkets : active_markets = Put(EmptyMap, "X", market)
    /\ f_live \in MatchLists
    /\ f_todo = {"X"}
    /\ pc = [w \in Workers |-> CASE w = "fetcher" -> "loop"
                                 [] w = "processor" -> "recv"
                                 [] OTHER -> "tick"]
    /\ am_readers = {"fetcher"}
    /\ cache_locked = TRUE
    /\ match_cache = EmptyMap
    /\ update_chan = <<>>
    /\ signals = <<>>
    /\ am_writer = FALSE
    /\ am_waiters = <<>>
    /\ s_markets = <<>>
    /\ s_returned = None
    /\ s_before = EmptyMap
    /\ s_failed = FALSE
    /\ scans = 0
    /\ f_update = None
    /\ p_update = None
    /\ p_signal = None
    /\ clock = 0
    /\ sent_pairs = {}
    /\ aliases = load_team_resolver
    /\ raw_match = None
    /\ main_result = None
    /\ series = None
    /\ event_replies = EmptyMap
    /\ event_requests = <<>>

NextMatch == FetchMarket \/ FetchSend \/ FetchDone

SpecMatch == InitMatch /\ [][NextMatch]_vars

-----------------------------------------------------------------------------
(* The scanner alone over a series of three events, each with its own      *)
(* answer from the provider                                                 *)

EventIds == <<"e1", "e2", "e3">>

SeriesEvents ==
    { [i \in 1..Len(EventIds) |-> SeriesEvent(EventIds[i], TRUE, closed[i])] :
        closed \in [1..Len(EventIds) -> BOOLEAN] }

\* the markets the provider lists for an event: the moneyline market of a
\* match and, for e1 and e3, markets the adapter leaves out
EventMarkets(id) ==
    CASE id = "e1" ->
           << MarketResponse("X", << <<"S","p">>, <<"O","G">> >>, <<40, 60>>,
                             Some("moneyline"), TRUE, FALSE),
              MarketResponse("X1", << <<"S","p">>, <<"O","G">> >>, <<50, 50>>,
                             Some("totals"), TRUE, FALSE) >>
      [] id = "e2" ->
           << MarketResponse("Y", << <<"O","G">>, <<"T","S"," ">> >>, <<55, 45>>,
                             Some("moneyline"), TRUE, FALSE) >>
      [] id = "e3" ->
           << MarketResponse("Z0", << <<"S","p">>, <<"G">> >>, <<50, 50>>,
                             Some("moneyline"), TRUE, TRUE),
              MarketResponse("Z1", << <<"S","p">>, <<"G">>, <<"D">> >>, <<40, 30, 30>>,
                             Some("moneyline"), TRUE, FALSE),
              MarketResponse("Z", << <<"S","p">>, <<"G">> >>, <<50, 50>>,
                             None, TRUE, FALSE),
              MarketResponse("Z", << <<"S","p">>, <<"G">> >>, <<50, 50>>,
                             Some("moneyline"), TRUE, FALSE) >>

\* answers to GET /events/{id}: no reply, a non-2xx status, a body that
\* does not decode, the event with its markets, or the event closed
EventReplies(id) ==
    { [kind |-> "transport_error"], [kind |-> "status_error"], [kind |-> "decode_error"] }
    \cup { [kind |-> "ok",
            event |-> [id |-> id, active |-> TRUE, closed |-> closed,
                       markets |-> EventMarkets(id)]] : closed \in BOOLEAN }

InitEvents ==
    /\ \E events \in SeriesEvents : series = Some([events |-> events])
    /\ \E r1 \in EventReplies("e1") : \E r2 \in EventReplies("e2") :
       \E r3 \in EventReplies("e3") :
          event_replies = Put(Put(Put(EmptyMap, "e1", r1), "e2", r2), "e3", r3)
    /\ event_requests = <<>>
    /\ active_markets = EmptyMap
    /\ match_cache = EmptyMap
    /\ update_chan = <<>>
    /\ signals = <<>>
    /\ am_readers = {}
    /\ am_writer = FALSE
    /\ am_waiters = <<>>
    /\ cache_locked = FALSE
    /\ pc = [w \in Workers |-> IF w = "processor" THEN "recv" ELSE "tick"]
    /\ s_markets = <<>>
    /\ s_returned = None
    /\ s_before = EmptyMap
    /\ s_failed = FALSE
    /\ scans = 0
    /\ f_live = <<>>
    /\ f_todo = {}
    /\ f_update = None
    /\ p_update = None
    /\ p_signal = None
    /\ clock = 0
    /\ sent_pairs = {}
    /\ aliases = load_team_resolver
    /\ raw_match = None
    /\ main_result = None

NextEvents == ScanFetchEvents \/ ScanClear \/ ScanInsert \/ ScanRelease

SpecEvents == InitEvents /\ [][NextEvents]_vars

-----------------------------------------------------------------------------
(* The scanner and the fetcher after the processor's task has ended: the    *)
(* receiver is dropped and every send fails                                 *)

InitClosed ==
    /\ pc = [w \in Workers |-> IF w = "processor" THEN "exited" ELSE "tick"]
    /\ active_markets = EmptyMap
    /\ match_cache = EmptyMap
    /\ update_chan = <<>>
    /\ signals = <<>>
    /\ am_readers = {}
    /\ am_writer = FALSE
    /\ am_waiters = <<>>
    /\ cache_locked = FALSE
    /\ s_markets = <<>>
    /\ s_returned = None
    /\ s_before = EmptyMap
    /\ s_failed = FALSE
    /\ scans = 0
    /\ f_live = <<>>
    /\ f_todo = {}
    /\ f_update = None
    /\ p_update = None
    /\ p_signal = None
    /\ clock = 0
    /\ sent_pairs = {}
    /\ aliases = load_team_resolver
    /\ raw_match = None
    /\ main_result = None
    /\ series = None
    /\ event_replies = EmptyMap
    /\ event_requests = <<>>

NextClosed ==
    \/ ScanFetch \/ ScanClear \/ ScanInsert \/ ScanRelease
    \/ FetchStart \/ FetchCheck \/ FetchHttp \/ FetchLockCache \/ FetchMarket
    \/ FetchSendClosed \/ FetchDone
    \/ Granted

SpecClosed == InitClosed /\ [][NextClosed]_vars

-----------------------------------------------------------------------------
(* Properties *)

\* the map a scan that returned `markets` leaves: one entry per
\* condition_id, holding the last market of the list with that id
MarketsOf(markets) ==
    [cid \in {markets[i].condition_id : i \in 1..Len(markets)} |->
        markets[CHOOSE i \in 1..Len(markets) :
                    /\ markets[i].condition_id = cid
                    /\ \A j \in (i + 1)..Len(markets) : markets[j].condition_id # cid]]

\* both teams of the market are, after normalization, the two sides of the
\* live match
SameTeams(market, live_match) ==
    LET a == normalize(market.team_a)
        b == normalize(market.team_b)
        r == normalize(live_match.radiant.name)
        d == normalize(live_match.dire.name)
    IN (a = r /\ b = d) \/ (a = d /\ b = r)

HasLiveMatch(market, live_matches) ==
    \E i \in 1..Len(live_matches) : SameTeams(market, live_matches[i])

\* worker w waits in the queue of the ActiveMarkets lock and cannot be granted
LockBlocked(w) ==
    \E i \in 1..Len(am_waiters) :
        am_waiters[i] = w /\ ~(i = 1 /\ CanGrant(w))

ScannerBlocked == LockBlocked("scanner")

FetcherBlocked ==
    \/ LockBlocked("fetcher")
    \/ pc["fetcher"] = "send" /\ Len(update_chan) >= ChanCap

ProcessorBlocked ==
    \/ LockBlocked("processor")
    \/ pc["processor"] = "recv" /\ update_chan = <<>>

\* C1: a worker holding a read guard of ActiveMarkets sees the complete map
\* of before the running scan or the complete map the scan returned, never
\* the cleared or a partly refilled map.
C1_AtomicScanSwap ==
    am_readers # {} =>
        \/ active_markets = s_before
        \/ s_returned # None /\ active_markets = MarketsOf(s_returned[1])

\* a reader holds its guard while a scan that returned a different set waits
\* for the write guard
C1_Witness ==
    /\ am_readers # {}
    /\ pc["scanner"] = "write_wait"
    /\ active_markets # EmptyMap
    /\ MarketsOf(s_returned[1]) # active_markets

\* C2: no reachable state has the scanner, the fetcher and the processor all
\* blocked on the ActiveMarkets lock or on the update channel.
C2_NeverAllBlocked ==
    ~(ScannerBlocked /\ FetcherBlocked /\ ProcessorBlocked)

\* C3: the first update the fetcher sends for a (market, match) pair has no
\* previous state and is classified game_start.
C3_FirstOfPairIsGameStart ==
    (pc["fetcher"] = "send" /\ pair_of(f_update[1]) \notin sent_pairs) =>
        /\ f_update[1].previous_state = None
        /\ detect_signal_type(f_update[1].state, f_update[1].previous_state) = "game_start"

\* C4: an update sent with previous_state = None is the first update sent
\* for its (market, match) pair.
C4_NoneOnlyOnFirst ==
    (pc["fetcher"] = "send" /\ f_update[1].previous_state = None) =>
        pair_of(f_update[1]) \notin sent_pairs

\* an update without previous state is on the channel while the fetcher
\* sends a later update for a pair it has sent before
C4_Witness ==
    /\ update_chan # <<>>
    /\ update_chan[1].previous_state = None
    /\ pc["fetcher"] = "send"
    /\ pair_of(f_update[1]) \in sent_pairs
    /\ f_update[1].previous_state # None

\* the states of one match on their way through the pipeline, oldest first:
\* the stored snapshots, the update being processed, the channel, the update
\* being sent
StatesInPipeline ==
    [i \in 1..Len(signals) |-> signals[i].match_snapshot]
    \o [i \in 1..Len(p_update) |-> p_update[i].state]
    \o [i \in 1..Len(update_chan) |-> update_chan[i].state]
    \o [i \in 1..Len(f_update) |-> f_update[i].state]

\* C5: per match_id the channel and the signal store keep the order in which
\* the fetcher observed the states: a state of an earlier poll is never
\* behind a state of a later poll.
C5_PerMatchOrder ==
    \A i, j \in 1..Len(StatesInPipeline) :
        (i < j /\ StatesInPipeline[i].match_id = StatesInPipeline[j].match_id) =>
            StatesInPipeline[i].updated_at <= StatesInPipeline[j].updated_at

\* the store holds signals of one match from two polls
C5_Witness ==
    \E i, j \in 1..Len(signals) :
        /\ i < j
        /\ signals[i].match_id = signals[j].match_id
        /\ signals[i].match_snapshot.updated_at < signals[j].match_snapshot.updated_at

\* C6: a row is inserted only for an update whose market_condition_id is a
\* key of ActiveMarkets when it is processed; an update whose market is
\* absent is dropped and the table is unchanged.
C6_PersistOnlyIfActive ==
    [][/\ Len(signals') > Len(signals) =>
            /\ p_update # None
            /\ p_update[1].market_condition_id \in DOMAIN active_markets
            /\ signals'[Len(signals')].market_condition_id = p_update[1].market_condition_id
       /\ (pc["processor"] = "lookup" /\ pc'["processor"] # "lookup"
           /\ p_update[1].market_condition_id \notin DOMAIN active_markets) =>
            /\ signals' = signals
            /\ pc'["processor"] = "recv"
            /\ p_update' = None]_vars

\* an update was sent for a market that a later scan evicted, and it was
\* dropped: nothing is in flight and the store has no row for the market
C6_Witness ==
    /\ pc["processor"] = "recv"
    /\ update_chan = <<>>
    /\ pc["fetcher"] = "tick"
    /\ \E pr \in sent_pairs :
          /\ pr[1] \notin DOMAIN active_markets
          /\ \A i \in 1..Len(signals) : signals[i].market_condition_id # pr[1]

\* C7: after a scan that found the provider unavailable, ActiveMarkets is
\* what it was before the scan.
C7_FailedScanKeepsMap ==
    (pc["scanner"] = "tick" /\ s_failed) => active_markets = s_before

C9_UnmatchedMarketNoOutput ==
    [][\A cid \in f_todo \ f_todo' :
          (pc["fetcher"] = "loop" /\ ~HasLiveMatch(active_markets[cid], f_live)) =>
              /\ match_cache' = match_cache
              /\ update_chan' = update_chan
              /\ f_update' = None
              /\ pc'["fetcher"] = "loop"]_vars

\* the fetcher has visited market Z, whose team Sp plays in live match 9
\* against another opponent, and has nothing to send for it
C9_Witness ==
    /\ pc["fetcher"] = "loop"
    /\ "Z" \in DOMAIN active_markets
    /\ "Z" \notin f_todo
    /\ ~HasLiveMatch(active_markets["Z"], f_live)
    /\ \A pr \in sent_pairs : pr[1] # "Z"

\* C10: a match_id becomes a key of the cache only as the match_id of a live
\* match whose two teams are the teams of an active market.
C10_CacheKeysAreMatched ==
    [][\A k \in DOMAIN match_cache' \ DOMAIN match_cache :
          \E cid \in DOMAIN active_markets : \E i \in 1..Len(f_live) :
              f_live[i].match_id = k /\ SameTeams(active_markets[cid], f_live[i])]_vars

\* the provider returned matches 9 and 7; the loop is over, 7 is cached and
\* 9, which no market matches, is not
C10_Witness ==
    /\ pc["fetcher"] = "loop"
    /\ f_todo = {}
    /\ \E i \in 1..Len(f_live) : f_live[i].match_id = 9
    /\ DOMAIN match_cache = {7}

\* C11: a fetch tick that finds ActiveMarkets empty ends without a call of
\* the live provider, and a tick that ends at the provider's reply (an error
\* or an empty list) ends likewise with the cache and the channel as they
\* were and no update built; the fetcher goes on past the reply only with a
\* non-empty list of matches.
C11_SkippedTickChangesNothing ==
    [][/\ (pc["fetcher"] = "check" /\ pc'["fetcher"] # "check"
           /\ DOMAIN active_markets = {}) =>
              /\ pc'["fetcher"] = "tick"
              /\ clock' = clock
              /\ match_cache' = match_cache
              /\ update_chan' = update_chan
              /\ f_update' = None
       /\ (pc["fetcher"] = "http" /\ pc'["fetcher"] = "tick") =>
              /\ match_cache' = match_cache
              /\ update_chan' = update_chan
              /\ f_update' = None
       /\ (pc["fetcher"] = "http" /\ pc'["fetcher"] \notin {"http", "tick"}) =>
              f_live' # <<>>]_vars

\* the only scan returned X and Y, which every non-empty reply matches; the
\* provider has been polled once and nothing was cached or sent
C11_Witness ==
    /\ pc["fetcher"] = "tick"
    /\ pc["scanner"] = "tick"
    /\ scans = 1
    /\ DOMAIN active_markets = {"X", "Y"}
    /\ clock = 1
    /\ match_cache = EmptyMap
    /\ sent_pairs = {}

\* C12: the channel never holds more updates than its capacity, and an
\* update the fetcher has built leaves the fetcher only by being appended to
\* the channel, once; nothing else adds to the channel.
C12_BoundedAndNothingDiscarded ==
    [][/\ Len(update_chan') <= ChanCap
       /\ (f_update # None /\ f_update' # f_update) =>
              /\ update_chan' = Append(update_chan, f_update[1])
              /\ f_update' = None
       /\ Len(update_chan') > Len(update_chan) =>
              /\ f_update # None
              /\ update_chan' = Append(update_chan, f_update[1])
              /\ f_update' = None]_vars

\* the fetcher waits in send() with an update built while the channel is full
C12_Witness ==
    /\ pc["fetcher"] = "send"
    /\ f_update # None
    /\ Len(update_chan) = ChanCap

\* the summed delta of a per-side counter between the previous and the
\* current state of the update being processed
SummedDelta(field) ==
    LET current == p_update[1].state
        previous == p_update[1].previous_state[1]
    IN (current.radiant[field] - previous.radiant[field])
       + (current.dire[field] - previous.dire[field])

\* the processor has built the signal of an update that has a previous state
Classified ==
    /\ pc["processor"] = "insert"
    /\ p_update[1].previous_state # None

\* C13: an update whose diff has a positive summed barracks delta and a
\* positive summed tower delta is classified barracks_kill, not tower_kill.
C13_BarracksBeforeTower ==
    (Classified /\ SummedDelta("barracks_killed") > 0 /\ SummedDelta("towers_killed") > 0) =>
        p_signal[1].signal_type = "barracks_kill"

\* a signal was built for a diff in which a barracks and a tower fell
C13_Witness ==
    /\ Classified
    /\ SummedDelta("barracks_killed") > 0
    /\ SummedDelta("towers_killed") > 0
    /\ p_signal[1].signal_type = "barracks_kill"

\* C14: with no positive barracks delta, no positive tower delta and a kill
\* delta below 5, the type is gold_swing exactly when gold_lead moved by at
\* least 5000 between the previous and the current state.
C14_GoldSwingFromGoldLead ==
    (Classified /\ SummedDelta("barracks_killed") <= 0 /\ SummedDelta("towers_killed") <= 0
     /\ SummedDelta("kills") < 5) =>
        (p_signal[1].signal_type = "gold_swing"
            <=> Abs(p_update[1].state.gold_lead - p_update[1].previous_state[1].gold_lead) >= 5000)

\* the buildings of bits lo..hi of the layout that are not alive
Destroyed(bits, lo, hi) == (hi - lo + 1) - Cardinality({i \in bits : lo <= i /\ i <= hi})

\* C15: a building_state of the documented layout decodes to the destroyed
\* counts of its four fields, the radiant side carrying the dire buildings
\* destroyed and the dire side the radiant buildings destroyed.
C15_DecodesLayout ==
    (f_live # <<>> /\ raw_match # None /\ raw_match[1].building_state # None) =>
        LET bits == raw_match[1].building_state[1]
            state == f_live[1]
        IN /\ state.dire.towers_killed = Destroyed(bits, 0, 10)
           /\ state.dire.barracks_killed = Destroyed(bits, 11, 16)
           /\ state.radiant.towers_killed = Destroyed(bits, 17, 27)
           /\ state.radiant.barracks_killed = Destroyed(bits, 28, 33)

\* C16: whatever the alias table, normalizing a normalized name changes
\* nothing.
C16_NormalizeIdempotent ==
    \A name \in ProbeNames : normalize(normalize(name)) = normalize(name)

\* the market with team_a and team_b exchanged
Swapped(market) ==
    [market EXCEPT !.team_a = market.team_b, !.team_b = market.team_a]

\* the market has a hit with team A on the radiant side
HitAsRadiant(market) ==
    LET hit == match_market_to_live(market, f_live)
    IN hit.found /\ hit.market_team_a_is_radiant

\* the swapped market has a hit on the same live match with team A on the
\* dire side
SwappedHitAsDire(market) ==
    LET hit == match_market_to_live(market, f_live)
        swapped == match_market_to_live(Swapped(market), f_live)
    IN /\ swapped.found
       /\ swapped.match_state = hit.match_state
       /\ ~swapped.market_team_a_is_radiant

\* C17 as stated: for every market and list, a hit with
\* market_team_a_is_radiant = true becomes, with team_a and team_b swapped,
\* a hit on the same live match with market_team_a_is_radiant = false.
C17_SwapFlipsFlag ==
    \A cid \in DOMAIN active_markets :
        HitAsRadiant(active_markets[cid]) => SwappedHitAsDire(active_markets[cid])

\* C17 amended: the same, for every market whose two team names normalize
\* to different names.
C17_SwapFlipsFlagDistinctTeams ==
    \A cid \in DOMAIN active_markets :
        LET market == active_markets[cid]
        IN (normalize(market.team_a) # normalize(market.team_b) /\ HitAsRadiant(market)) =>
               SwappedHitAsDire(market)

\* the fetcher sends the update of a market of two different teams that
\* was joined, team A radiant, to the second live match of the list
C17_Witness ==
    /\ pc["fetcher"] = "send"
    /\ "X" \in DOMAIN active_markets
    /\ normalize(active_markets["X"].team_a) # normalize(active_markets["X"].team_b)
    /\ HitAsRadiant(active_markets["X"])
    /\ Len(f_live) = 2
    /\ f_update[1].state = f_live[2]

\* C18: the win probability of every signal the processor builds or has
\* stored lies in [0.05, 0.95].
C18_ProbabilityClamped ==
    /\ p_signal # None =>
          /\ p_signal[1].team_a_win_prob >= 5 * (Scale \div 100)
          /\ p_signal[1].team_a_win_prob <= 95 * (Scale \div 100)
    /\ \A i \in 1..Len(signals) :
          /\ signals[i].team_a_win_prob >= 5 * (Scale \div 100)
          /\ signals[i].team_a_win_prob <= 95 * (Scale \div 100)

\* a stored signal of a state whose unclamped score is below 0 (radiant
\* behind on every counter, past minute 40) has probability 0.05
C18_Witness ==
    \E i \in 1..Len(signals) :
        /\ signals[i].team_a_win_prob = 5 * (Scale \div 100)
        /\ signals[i].match_snapshot.game_time > 2400
        /\ signals[i].match_snapshot.dire.kills > signals[i].match_snapshot.radiant.kills
        /\ signals[i].match_snapshot.dire.net_worth > signals[i].match_snapshot.radiant.net_worth

\* the signals built so far: the stored rows and the one being inserted
BuiltSignals == signals \o p_signal

Rank(strength) ==
    CASE strength = "weak" -> 0
      [] strength = "moderate" -> 1
      [] strength = "strong" -> 2
      [] strength = "very_strong" -> 3

\* C20: of any two signals the one with the larger |edge| has at least the
\* strength of the other, and two signals with opposite edges have the same
\* strength.
C20_StrengthMonotone ==
    \A i, j \in 1..Len(BuiltSignals) :
        /\ Abs(BuiltSignals[i].edge) >= Abs(BuiltSignals[j].edge) =>
              Rank(BuiltSignals[i].strength) >= Rank(BuiltSignals[j].strength)
        /\ BuiltSignals[i].edge = -BuiltSignals[j].edge =>
              BuiltSignals[i].strength = BuiltSignals[j].strength

\* the store holds two signals with opposite edges of 0.07, both strong
C20_Witness ==
    /\ Len(signals) = 2
    /\ signals[1].edge = 7 * (Scale \div 100)
    /\ signals[2].edge = -signals[1].edge
    /\ signals[1].strength = "strong"
    /\ signals[2].strength = "strong"

\* C21: the probability and the edge of the signal being stored are those
\* of the market's team A: the model's (radiant) probability when the join
\* has team A on the radiant side, its complement when team A is dire; the
\* edge is that probability minus the team_a_odds of the market found.
C21_EdgeIsForTeamA ==
    pc["processor"] = "insert" =>
        LET market == active_markets[p_update[1].market_condition_id]
            hit == match_market_to_live(market, << p_update[1].state >>)
            radiant_win_prob == calculate_win_probability(p_update[1].state)
            team_a_win_prob == IF hit.market_team_a_is_radiant
                               THEN radiant_win_prob ELSE Scale - radiant_win_prob
        IN hit.found =>
              /\ p_signal[1].team_a_win_prob = team_a_win_prob
              /\ p_signal[1].edge = team_a_win_prob - market.team_a_odds

\* C22: the win probability of the signal being stored is
\* clamp(0.5 + d * (1 + 0.5 * min(game_time / 2400, 1)), 0.05, 0.95) with the
\* gold term of d taken from gold_lead.
C22_ProbabilityFromGoldLead ==
    pc["processor"] = "insert" =>
        LET state == p_update[1].state
            d == 500 * (state.radiant.kills - state.dire.kills)
                 + state.gold_lead
                 + 3000 * (state.radiant.towers_killed - state.dire.towers_killed)
                 + 8000 * (state.radiant.barracks_killed - state.dire.barracks_killed)
        IN p_signal[1].team_a_win_prob =
               Clamp(Scale \div 2 + d * (4800 + Min(state.game_time, 2400)),
                     5 * (Scale \div 100), 95 * (Scale \div 100))

SignalTypes ==
    {"game_start", "barracks_kill", "tower_kill", "kill_spree", "gold_swing",
     "late_game", "periodic_update"}

\* C23: every signal built or stored has one of the seven types that have a
\* rule; none is roshan_kill or first_blood.
C23_OnlyTriggeredTypes ==
    \A i \in 1..Len(BuiltSignals) :
        /\ BuiltSignals[i].signal_type \in SignalTypes
        /\ BuiltSignals[i].signal_type \notin {"roshan_kill", "first_blood"}

\* a signal is stored for an update in which the first kills of the game
\* fell
C23_Witness ==
    \E i \in 1..Len(signals) :
        /\ signals[i].signal_type = "kill_spree"
        /\ signals[i].match_snapshot.radiant.kills > 0

Ids(rows) == {rows[i].id : i \in 1..Len(rows)}

Returned(rows, match_id) ==
    LET found == get_signals_for_match(rows, match_id, 10)
    IN {found[i] : i \in 1..Len(found)}

\* C24: an insert adds one row, the signal with a fresh id, after the rows
\* already there, which stay as they are, and the count grows by one; the
\* ids of the table are pairwise distinct and every row is returned by
\* get_signals_for_match for its match.
C24_AppendOnlyDistinctIds ==
    /\ [](/\ Cardinality(Ids(signals)) = Len(signals)
          /\ \A i \in 1..Len(signals) :
                signals[i] \in Returned(signals, signals[i].match_id))
    /\ [][signals' # signals =>
            /\ get_signal_count(signals') = get_signal_count(signals) + 1
            /\ SubSeq(signals', 1, Len(signals)) = signals
            /\ signals'[Len(signals')].id \notin Ids(signals)
            /\ [signals'[Len(signals')] EXCEPT !.id = None] = p_signal[1]]_vars

\* two identical updates were processed: the table holds two rows that
\* differ in the id only
C24_Witness ==
    /\ Len(signals) = 2
    /\ signals[1].id # signals[2].id
    /\ [signals[1] EXCEPT !.id = None] = [signals[2] EXCEPT !.id = None]
    /\ Returned(signals, signals[1].match_id) = {signals[1], signals[2]}

\* C25: when insert_signal fails the table is unchanged, the update is gone
\* (not put back on the channel, not kept by the processor) and the
\* processor is back at recv, its guard dropped, ready for the next update.
C25_FailedInsertDropsUpdate ==
    [][(pc["processor"] = "insert" /\ pc'["processor"] # "insert" /\ signals' = signals) =>
          /\ update_chan' = update_chan
          /\ p_update' = None
          /\ p_signal' = None
          /\ pc'["processor"] = "recv"
          /\ "processor" \notin am_readers']_vars

\* the insert of the first update has failed: the table is empty and the
\* processor waits at recv with the second update still on the channel
C25_Witness ==
    /\ pc["processor"] = "recv"
    /\ signals = <<>>
    /\ p_update = None
    /\ Len(update_chan) = 1

\* C26: the exit code is 0 when select! took the ctrl_c arm and non-zero
\* when it took the arm of a worker's handle.
C26_ExitCodeTellsCause ==
    main_result # None =>
        IF main_result[1].arm = "ctrl_c"
        THEN main_result[1].code = 0
        ELSE main_result[1].code # 0

ProcessorTerminated == pc["processor"] = "exited"

\* C27: once the sender is dropped the processor terminates, and once the
\* processor has terminated main returns and the process ends.
C27_ClosedChannelEndsProcessor ==
    /\ sender_dropped ~> ProcessorTerminated
    /\ ProcessorTerminated ~> main_result # None

\* the processor's run has returned on the closed channel and select! has
\* taken the arm of its handle
C27_Witness ==
    /\ main_result # None
    /\ main_result[1].arm = "processor"

\* (team_a, team_b) of the market are (radiant, dire) of the live match
AsRadiant(market, live_match) ==
    /\ normalize(market.team_a) = normalize(live_match.radiant.name)
    /\ normalize(market.team_b) = normalize(live_match.dire.name)

\* (team_b, team_a) of the market are (radiant, dire) of the live match
AsDire(market, live_match) ==
    /\ normalize(market.team_b) = normalize(live_match.radiant.name)
    /\ normalize(market.team_a) = normalize(live_match.dire.name)

Candidates(market) ==
    {i \in 1..Len(f_live) : AsRadiant(market, f_live[i]) \/ AsDire(market, f_live[i])}

\* C28: match_market_to_live finds nothing exactly when no live match of
\* the list has the market's two teams in either order; otherwise it
\* returns the first such match of the list, with market_team_a_is_radiant
\* true when (team_a, team_b) = (radiant, dire) and false when only
\* (team_b, team_a) = (radiant, dire).
C28_FirstInInputOrder ==
    \A cid \in DOMAIN active_markets :
        LET market == active_markets[cid]
            hit == match_market_to_live(market, f_live)
        IN IF Candidates(market) = {}
           THEN ~hit.found
           ELSE LET first == CHOOSE i \in Candidates(market) :
                                \A j \in Candidates(market) : i <= j
                IN /\ hit.found
                   /\ hit.match_state = f_live[first]
                   /\ hit.market_team_a_is_radiant = AsRadiant(market, f_live[first])

\* both live matches of the list have the market's teams, team A on the
\* dire side of the first and on the radiant side of the second: the
\* fetcher sends the update of the first
C28_Witness ==
    /\ pc["fetcher"] = "send"
    /\ Len(f_live) = 2
    /\ Candidates(active_markets["X"]) = {1, 2}
    /\ ~AsRadiant(active_markets["X"], f_live[1])
    /\ AsRadiant(active_markets["X"], f_live[2])
    /\ f_update[1].state = f_live[1]
    /\ ~match_market_to_live(active_markets["X"], f_live).market_team_a_is_radiant

\* the name is registered, in any letter case, as an alias of canonical
Registered(name, canonical) ==
    /\ to_lowercase(name) \in DOMAIN aliases
    /\ aliases[to_lowercase(name)] = canonical

Canonicals == {aliases[key] : key \in DOMAIN aliases}

\* C29: normalize returns the table's entry for the trimmed lowercase name,
\* or that name itself when it is no key, and names_match compares the
\* normalized names; two names registered as aliases of one canonical
\* match each other and the canonical name, and names registered for
\* different canonicals do not match.
C29_AliasesOfOneTeamMatch ==
    /\ \A name \in ProbeNames :
          LET lower == trim(to_lowercase(name))
          IN normalize(name) = IF lower \in DOMAIN aliases THEN aliases[lower] ELSE lower
    /\ \A a \in ProbeNames : \A b \in ProbeNames :
          names_match(a, b) <=> (normalize(a) = normalize(b))
    /\ \A canonical \in Canonicals : \A a \in ProbeNames : \A b \in ProbeNames :
          (Registered(a, canonical) /\ Registered(b, canonical)) =>
              /\ names_match(a, b)
              /\ names_match(a, canonical)
    /\ \A c \in Canonicals : \A d \in Canonicals : \A a \in ProbeNames : \A b \in ProbeNames :
          (c # d /\ Registered(a, c) /\ Registered(b, d)) => ~names_match(a, b)

RECURSIVE Flatten(_)
Flatten(lists) == IF lists = <<>> THEN <<>> ELSE Head(lists) \o Flatten(Tail(lists))

EventFails(id) == event_replies[id].kind # "ok"

\* C30: with one or more active events failing, the pass returns Ok with
\* the markets of the other active events, in the order of the series, and
\* nothing of the failing events; every active event is requested once.
C30_FailingEventIsSkipped ==
    scans > 0 =>
        LET ids == active_event_ids(series[1].events)
        IN /\ s_returned # None
           /\ event_requests = ids
           /\ s_returned[1] =
                 Flatten([i \in 1..Len(ids) |->
                             IF EventFails(ids[i]) THEN <<>>
                             ELSE fetch_event_markets(event_replies[ids[i]]).markets])

\* the three events are active, the second fails and the scan has filled
\* ActiveMarkets with the markets of the first and the third
C30_Witness ==
    /\ scans > 0
    /\ pc["scanner"] = "tick"
    /\ active_event_ids(series[1].events) = EventIds
    /\ EventFails("e2")
    /\ event_requests = EventIds
    /\ DOMAIN active_markets = {"X", "Z"}
    /\ active_markets["X"] = MX
    /\ active_markets["Z"] = MZ

\* C31: no step of any worker removes a key of LiveMatchCache.
C31_CacheKeysOnlyGrow ==
    [][DOMAIN match_cache \subseteq DOMAIN match_cache']_vars

\* match 7 was cached in the first pass and is still cached when the second
\* pass has ended and the scanner has replaced the markets
C31_Witness ==
    /\ clock = MaxTicks
    /\ scans = MaxScans
    /\ pc["fetcher"] = "tick"
    /\ pc["scanner"] = "tick"
    /\ 7 \in DOMAIN match_cache
    /\ match_cache[7].updated_at < clock

\* C32: the fetcher holds no read guard of ActiveMarkets while
\* fetch_live_matches runs, and the processor holds none while insert_signal
\* runs.
C32_NoReadGuardAcrossIO ==
    /\ pc["fetcher"] = "http" => "fetcher" \notin am_readers
    /\ pc["processor"] = "insert" => "processor" \notin am_readers

\* C33: a worker suspended at a send on the full channel, at a receive on
\* the empty channel or at its timer holds neither the ActiveMarkets lock
\* nor the LiveMatchCache lock.
C33_NoLockWhileSuspended ==
    /\ (pc["fetcher"] = "send" /\ Len(update_chan) >= ChanCap) =>
          "fetcher" \notin am_readers /\ ~cache_locked
    /\ (pc["processor"] = "recv" /\ update_chan = <<>>) => "processor" \notin am_readers
    /\ pc["fetcher"] = "tick" => "fetcher" \notin am_readers /\ ~cache_locked
    /\ pc["scanner"] = "tick" => ~am_writer

\* the updates in the pipeline: being processed, on the channel, being sent
UpdatesInFlight ==
    {p_update[i] : i \in 1..Len(p_update)}
    \cup {update_chan[i] : i \in 1..Len(update_chan)}
    \cup {f_update[i] : i \in 1..Len(f_update)}

\* C34: the updates built in one tick for one live match (the same state,
\* stamped by the same poll) carry the same previous_state and are
\* classified alike, and so are the signals stored for them.
C34_SamePreviousForOneMatch ==
    /\ \A u \in UpdatesInFlight : \A v \in UpdatesInFlight :
          u.state = v.state =>
              /\ u.previous_state = v.previous_state
              /\ detect_signal_type(u.state, u.previous_state)
                    = detect_signal_type(v.state, v.previous_state)
    /\ \A i \in 1..Len(signals) : \A j \in 1..Len(signals) :
          signals[i].match_snapshot = signals[j].match_snapshot =>
              signals[i].signal_type = signals[j].signal_type

\* the first rule of the priority list that holds for the update being
\* processed, the gold swing taken from gold_lead
FirstRuleThatHolds ==
    LET current == p_update[1].state
        previous == p_update[1].previous_state[1]
    IN IF SummedDelta("barracks_killed") > 0 THEN "barracks_kill"
       ELSE IF SummedDelta("towers_killed") > 0 THEN "tower_kill"
       ELSE IF SummedDelta("kills") >= 5 THEN "kill_spree"
       ELSE IF Abs(current.gold_lead - previous.gold_lead) >= 5000 THEN "gold_swing"
       ELSE IF previous.game_time <= 2100 /\ current.game_time > 2100 THEN "late_game"
       ELSE "periodic_update"

\* C37: with a previous state, the type of the signal is the first rule
\* that holds in the order barracks_kill, tower_kill, kill_spree,
\* gold_swing, late_game, and periodic_update when none holds.
C37_FirstRuleWins ==
    Classified => p_signal[1].signal_type = FirstRuleThatHolds

\* updates are on the channel and none will ever be received: the processor
\* waits for its read guard behind the scanner's write request, which waits
\* for the read guard of the fetcher, which waits for room on the channel
UpdatesStranded ==
    /\ update_chan # <<>>
    /\ LockBlocked("processor")
    /\ LockBlocked("scanner")
    /\ pc["fetcher"] = "send"
    /\ "fetcher" \in am_readers
    /\ Len(update_chan) >= ChanCap

\* C35: every update on the channel is eventually received: no reachable
\* state leaves updates on the channel with no worker able to take a step.
C35_NoUpdateStaysOnChannel == ~UpdatesStranded

\* the fetcher builds an update in this step
UpdateBuilt == pc["fetcher"] = "loop" /\ pc'["fetcher"] = "send"

\* C36: a step that builds an update for match m gives it the state the
\* cache held for m before the step (None without an entry) as
\* previous_state and leaves the cache with the update's state for m and
\* every other entry as it was; no other step changes the cache, so the
\* entry of m is the state of the latest update built for m.
C36_PreviousIsCachedState ==
    [][IF UpdateBuilt
       THEN LET update == f_update'[1]
                match_id == update.state.match_id
            IN /\ update.previous_state =
                     IF match_id \in DOMAIN match_cache
                     THEN Some(match_cache[match_id]) ELSE None
               /\ match_cache' = Put(match_cache, match_id, update.state)
       ELSE match_cache' = match_cache]_vars

\* the update of the second poll is being sent: its previous state is the
\* state of the first poll and the cache holds its own state
C36_Witness ==
    /\ pc["fetcher"] = "send"
    /\ f_update[1].state = Stamp(<<G7b>>, 2)[1]
    /\ f_update[1].previous_state = Some(Stamp(<<G7a>>, 1)[1])
    /\ match_cache[7] = f_update[1].state

\* C38: a send that fails on the closed channel puts nothing on the
\* channel, the fetcher keeps no copy of the update to try again, the cache
\* holds the update's state for its match, and the fetcher goes on in its
\* loop with the markets still to visit, its task not ended.
C38_FailedSendIsDropped ==
    [][(pc["fetcher"] = "send" /\ receiver_dropped /\ pc'["fetcher"] # "send") =>
          /\ update_chan' = update_chan
          /\ f_update' = None
          /\ match_cache' = match_cache
          /\ match_cache[f_update[1].state.match_id] = f_update[1].state
          /\ pc'["fetcher"] = "loop"
          /\ f_todo' = f_todo
          /\ f_live' = f_live]_vars

\* every send of the first poll has failed and the fetcher, in its second
\* poll, has built an update against the state the first poll cached, with
\* a market still to visit
C38_Witness ==
    /\ receiver_dropped
    /\ sent_pairs = {}
    /\ update_chan = <<>>
    /\ pc["fetcher"] = "send"
    /\ clock = 2
    /\ f_update[1].previous_state = Some(Stamp(<<G7a>>, 1)[1])
    /\ f_todo # {}

\* the step is one of the processor, the scanner or the fetcher: it moves
\* that worker or changes what only that worker writes
ProcessorStep ==
    \/ pc'["processor"] # pc["processor"]
    \/ p_update' # p_update
    \/ p_signal' # p_signal
    \/ signals' # signals

ScannerStep ==
    \/ pc'["scanner"] # pc["scanner"]
    \/ s_markets' # s_markets
    \/ scans' # scans

FetcherStep ==
    \/ pc'["fetcher"] # pc["fetcher"]
    \/ f_live' # f_live
    \/ f_todo' # f_todo
    \/ f_update' # f_update
    \/ clock' # clock

\* C39: a processor step changes neither ActiveMarkets nor LiveMatchCache,
\* a scanner step does not change the cache and a fetcher step does not
\* change ActiveMarkets; ActiveMarkets changes in scanner steps only and
\* the cache in fetcher steps only.
C39_OneWriterPerMap ==
    [][/\ ProcessorStep => (active_markets' = active_markets /\ match_cache' = match_cache)
       /\ ScannerStep => match_cache' = match_cache
       /\ FetcherStep => active_markets' = active_markets
       /\ active_markets' # active_markets => ScannerStep
       /\ match_cache' # match_cache => FetcherStep]_vars

\* all three workers have acted: the scanner has replaced the markets of its
\* first scan, the fetcher has cached match 7 and the processor has stored
\* a signal
C39_Witness ==
    /\ scans = MaxScans
    /\ active_markets # EmptyMap
    /\ active_markets # s_before
    /\ 7 \in DOMAIN match_cache
    /\ signals # <<>>

\* market and poll of every update built so far that was not dropped by the
\* processor: stored, being processed, on the channel, being sent
BuiltFor ==
    [i \in 1..Len(signals) |->
        << signals[i].market_condition_id, signals[i].match_snapshot.updated_at >>]
    \o [i \in 1..Len(p_update) |->
        << p_update[i].market_condition_id, p_update[i].state.updated_at >>]
    \o [i \in 1..Len(update_chan) |->
        << update_chan[i].market_condition_id, update_chan[i].state.updated_at >>]
    \o [i \in 1..Len(f_update) |->
        << f_update[i].market_condition_id, f_update[i].state.updated_at >>]

\* C40: no two updates are built for one market in one poll; an update
\* being enqueued is for a market that is a key of ActiveMarkets and has a
\* live match in the poll's list; and the markets the loop visits are keys
\* of the map as it is during the loop.
C40_OneUpdatePerActiveMarket ==
    /\ \A i \in 1..Len(BuiltFor) : \A j \in 1..Len(BuiltFor) :
          i # j => BuiltFor[i] # BuiltFor[j]
    /\ pc["fetcher"] = "send" =>
          /\ f_update[1].market_condition_id \in DOMAIN active_markets
          /\ f_update[1].market_condition_id \notin f_todo
          /\ HasLiveMatch(active_markets[f_update[1].market_condition_id], f_live)
    /\ pc["fetcher"] \in {"loop", "send"} => f_todo \subseteq DOMAIN active_markets

\* the markets the fetcher saw before its call, one of them with a live
\* match in the reply, were removed by a scan during the call: the loop runs
\* over the empty map and builds no update
C40_Witness ==
    /\ pc["fetcher"] = "loop"
    /\ f_live # <<>>
    /\ active_markets = EmptyMap
    /\ f_todo = {}
    /\ f_update = None
    /\ \E cid \in DOMAIN s_before : HasLiveMatch(s_before[cid], f_live)
    /\ update_chan = <<>>
    /\ signals = <<>>

====
